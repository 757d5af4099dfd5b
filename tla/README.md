# Verification of the Goldberg system

TLA+ models, TLC runs and TLAPS proofs for `src/goldberg_system`: the service
that keeps a search index of a legal evidence archive in step with the git
repository `goldberg-raw`, and what its operators rely on beside it: bounded
catch-up and its reports, the derived store, health and alerts, the grounding
checker and the contradiction detector.

Paths below are relative to `src/src/goldberg_system/` unless they say more.

## 1. Inventory

### Components

| Component | Code | State it keeps | Operations | Interacts with |
|---|---|---|---|---|
| Git hooks | `src/hooks/post-commit`, `post-merge` | none | publish a commit sha, swallow every failure | stream |
| Commit stream | `messaging/` (NATS JetStream, external) | messages, delivery counts, ack timers | publish, pull, ack, nak, term, redeliver, give up | hooks, processor |
| IngestProcessor | `ingest/processor.py` | batch in hand, counters | fetch a batch, run one attempt per message on a worker thread, ack / nak / term, dead-letter events | stream, process_commit, event index |
| process_commit | `ingest/processor.py`, `ingest/commit_files.py` | statuses per path | refresh provenance, resolve changed files, reingest them | git, manifest, index, Docling |
| Catch-up | `ingest/catchup.py` | report of the last pass | refresh provenance, select pending entries, reingest them; once at start, then periodically | manifest, index, registry, Docling |
| reingest | `migrate/reingest.py`, `pipeline.py` | none | per entry: skip, tombstone, convert, enrich, write to sinks | Docling, enricher, sinks |
| Provenance manifest | `migrate/manifest.py`, `catchup.refresh_provenance` | JSON file keyed by sha256, through one temporary file | register new contents | raw tree, metadata chain |
| Metadata chain | `metadata/sidecar.py`, `metadata/inheritance.py` | none (pure) | fold folder and sidecar layers; `no_index` fails closed | manifest |
| Exclusions | `exclusion_registry.py`, `deindex.py`, `observability/restricted_alert.py` | append-only registry file, copies of it in each process | deindex, add, refuse at the sink, find exposures | index, mirror, catch-up |
| Sinks | `sinks/` | Elasticsearch index, extracted mirror | write, remove by path | reingest |
| Reconciliation | `ingest/reconcile.py`, `observability/reconcile.py`, `mcp/server.py` | none | gap report, orphan report | manifest, index, registry |
| Derived store | `extracted.py`, `cli.py` (backfill, re-enrich, reindex) | mirror files | rebuild index and mirror from each other | index, enricher |
| Docling client | `extract/docling_client.py` | one task | submit, poll until a deadline, fetch | Docling (external) |
| Doctor, status, alerts | `observability/` | event index | probes with a timeout, aggregate, alert rules | everything |
| Grounding | `grounding/`, `cli.py` (ground-check) | report under construction | read a text for the authorities it cites and the passages it quotes, check both against the texts held, gate on the result | raw tree |
| Query, contradictions, pairing | `query.py`, `audience.py`, `nli/pairing.py` | none (pure) | pair and rank claims that conflict | index |
| Enricher, dashboard, configuration, secrets | rest | none | I/O | |

### What is hard

* At-least-once delivery: every answer can be lost, every batch can die with the
  process, the ack wait (its first back-off, 30 s) is shorter than an OCR run.
* Two threads of one process, the commit processor and the periodic catch-up,
  share the manifest file, its one temporary file and the index, without a lock.
* The manifest is keyed by content, commits and documents by path: modified,
  copied, renamed and deleted files make the two disagree.
* Exclusions are made by another process (the CLI) in several steps, while the
  service holds a copy of the registry it read when it started.
* Fail-open and fail-closed rules are folded over the same metadata layers.
* A pass attempts at most a batch, entries without text never index, and the
  report of the pass is made of three loops over the manifest that must agree.
* The id of a document is a hash of its text, and annotations are part of the
  text: files, index and re-enrichment pass it round.
* Health and alerts are made of many calls, each of which may fail, hang or see
  another moment; a scheduler gates on one number.
* Ground-check gates on one number too, made of overlapping names, windows and
  three kinds of findings gathered over all files.

### What makes each component correct

* Stream and processor: acked only after a clean attempt; every message settled;
  dead letters exactly at the last delivery, about the files that failed in it.
* Ingest: an ack means the files are searchable; documents leave the index only
  when files leave the tree; provenance precedes documents and is never lost;
  gaps heal.
* Exclusion: what was purged never comes back, and if it does it is reported.
* Metadata chain: an exclusion, or anything that looks like one, is never undone
  by a narrower layer; an error never drops a document.
* Catch-up reports: nothing is dropped without a word, a clean report is true,
  the backlog drains; gap and orphan reports find what the passes left, no more.
* Derived store: an edit of a note takes effect; a dropped index comes back from
  the mirror, without what is excluded; one document for each text of a file.
* Doctor and alert: exit code 0 is never said of something broken, but for the two
  queries whose failure `alert` takes for nothing.
* Docling client: a conversion holds its worker for a bounded time.
* Grounding: exit code 0 exactly when the corpus cites held law and quotes what
  it says; faults in what was served come first.
* Claims: every shift of account is found; nothing is found in copies.

## 2. Modules

| Module | Models | Proofs |
|---|---|---|
| `TriggerLifecycle` | what the trigger path promises about one message (abstract) | |
| `CommitStream` | broker, pull consumer, `IngestProcessor`; implements `TriggerLifecycle` | `CommitStreamProofs` |
| `SearchableArchive` | what the ingest service promises about commits and documents (abstract) | |
| `Ingest` | `process_commit`, catch-up, `reingest_from_raw`, manifest file, index, two threads; implements `SearchableArchive` | `IngestProofs` |
| `CatchupBatch` | bounded catch-up passes, `reconcile`, `audit --orphans` | `CatchupBatchProofs` |
| `Exclusion` | registry, sink refusal, `deindex`, `exclusions add` and `verify`, beside catch-up and commits | `ExclusionProofs` |
| `NoIndexChain` | `resolve_chain`: the fail-closed fold of `no_index` and the fail-open fold of ordinary fields | `NoIndexChainProofs` |
| `DerivedStore` | index, mirror and registry under ingestion, tombstones, `deindex`, `re-enrich`, `backfill-extracted`, `reindex-from-extracted` | `OperatorProofs` |
| `Doctor`, `Alerting`, `Docling` | `run_doctor`; `alert`; one conversion | `OperatorProofs` |
| `Citations`, `Grounding` | how a text is read for authorities and quotations; ground-check | `AnalysisProofs` |
| `Claims` | contradictions, and the audience-seam worklist | `AnalysisProofs` |
| `LeastNatural` | a lemma that the other proof modules share | itself |

`MCCommitStream`, `MCIngest`, `MCIngestAlone`, `MCExclusion`, `MCNoIndexChain` and
`MCDerivedStore` are instances for TLC. `MCOperations` is one instance of seven
components that share no state with one another (`CatchupBatch`, `DerivedStore`,
`Doctor`, `Alerting`, `Docling`, `Grounding`, `Claims`): `scene` chooses which of them
runs, the others stay in an initial state.

How the parts meet. `CommitStream` sees an attempt at a commit as clean or not; `Ingest`
says what an attempt does, for the two threads, without a batch; `CatchupBatch` has the
batch, without commits and crashes. `NoIndexChain` computes what `Exclusion` and
`DerivedStore` take as given (`marked`, `chain`). `Docling` is one step (`Convert`) of
the ingest modules.

### `CommitStream`

`entry[m]` and `num[m]` are the broker's record of a message, `batch` the copies
the processor holds, `pc` where `_handle` is with the first of them, `outcome`
the `CommitResult` or exception of the attempt. `Fetch` is `process_batch`'s
pull; `StartWork` and `FinishWork` bracket `asyncio.to_thread(process_commit)`,
so that the ack wait can expire and the process can die in between; `Settle` is
the ack, nak or term at the end of `_handle`, and `Emit` the dead-letter events
that follow a term, because a crash can separate them. `SettleRaises` is an
exception out of the client, which abandons the rest of the batch. The broker
is external and modelled from what `messaging/client.py` asks of it: explicit
acknowledgement, `max_deliver`, a wait. Faults (crash, lost delivery, lost
answer, exception, refused event) are counted by `faults`.

`TriggerLifecycle` knows nothing of batches and faults: a message is sent, tried
up to `MaxTries` times, closed when a try was clean, buried or dropped when its
tries are used up. `ImplementsLifecycle` is the refinement.

### `Ingest`

`raw` is the working tree, `log` what each commit put at the paths it added or
modified (`changed_files` drops deletions), `manifest` and `tmp` the two files of
`_atomic_write_json`, `index` the documents, keyed like `doc_id` by path and
text and stamped with the `raw_sha256` of the manifest entry. Each thread goes
through walk, write, replace, load and reingest; `process_one` is split into
skip, find missing, tombstone, convert and write, one item at a time in any
order, as on the thread pool. `handle[r]` follows the file a thread has open,
because the other one may truncate it or move it over the manifest; `Torn` is a
manifest that does not parse, which every reader takes for an empty one.
Contents, their sha256 and the text extracted from them are one value.

`SearchableArchive` knows no threads, files or provenance: commits are published, tried at
most `MaxTries` times and answered once, by an ack (only when each undisturbed file
with text is searchable) or by giving up; a document appears only with a text that its
path once had, and disappears, with all others of its path, only where a file was
deleted. `ImplementsArchive` is the refinement; `docs` is `DocsHeld`, the index without
its stamps, and everything about the manifest is a stutter.

### `Exclusion`

Three parties without a lock between them. Casework sets and clears `marked[f]`,
what `resolve_chain` would say of file `f` now; `entry[f]` is what the manifest
keeps of it, decided once (`Register`). The operator's command goes through
`DeleteDocuments`, `UnlinkMirror`, `RecordPurge`, the order of `deindex`, and may
end in the middle of any of them (`AbortDeindex`). The service reads the registry
file at two moments: `held` when its sink is built (`Restart`), `seen` when a
catch-up pass begins. A job is one document on its way through
`write_to_sinks`, the index sink first and then the mirror, which does not know
the registry; between the two, and before the first, anything may happen.
`sealed` and `purged` are history: files purged under an exclusion the sink
already held, and files of any completed `deindex`.

The difference between the two is the point. `SealedStaysOut` says that
"register, restart, then deindex" is an order of steps that keeps a document out
for good. `PurgedStaysOut`, what the code's comment promises of every purge,
fails: the command registers last, and the running sink does not see it.

A failed write is module `Ingest`'s subject; here a job that reaches a sink is
written or refused. Exclusions by content hash, several hits beyond one page,
malformed registry lines and documents Elasticsearch has accepted but not made
visible to `delete_by_query` yet are left out.

### `NoIndexChain`

One step per metadata layer, root first, each chosen from all layers: absent,
broken, unreadable, or a mapping reduced to the keys the exclusion is made of
and one ordinary field. `latch` is `_NoIndexResolution`, `fields` is `merged`,
`Resolve` is `apply`. The properties say what the fold must amount to, in terms
of the set of layers read (`chain`) and not of the fold: who excluded the file,
how severe it is, whose reason is on record, which layer an ordinary field comes
from. `SeverityIsSafe` states the rule the code has, which is weaker than a
reader may expect: a layer that is dropped, or that excludes nothing itself, can
declare an exclusion of another layer to be housekeeping. `ReadRaises` is the
exception `resolve_chain` does not catch (a file that is not UTF-8), though its
comment says failures are recorded and never raised. `Exclusion` sees the result
of this module as `marked[f]`.

### `CatchupBatch`

One pass after the other, no commits: what the self-healing alone achieves. `BeginBatch`
is `refresh_provenance`, the counts, `select_pending` and the work list at once;
`ProcessItem` is `process_one` for one item, in any order, while the tree goes on
changing (`EditTree`). `Earlier` is the order of the manifest, which decides what a
batch leaves out. `RaiseGone` is the exception of a file that goes between `is_file` and
`convert_file`: it leaves `run_periodic_catchup`, and `alive` is false until the service
is restarted. `Gap`, `Orphans`, `AuditMissing`, `AuditExit` and `IngestExit` are the
reports of `reconcile` and `audit`, of which the latter sees one `Page` of the index.
The properties name each exception to what a clean report promises: files without text,
copies of what is registered elsewhere, and paths with several registered contents
(`Superseded`). `BacklogDrains` names what a pass cannot get past: `Stuck` entries that
fill every batch, another text under the sha (`Misstamped`), and a dead loop.

### `DerivedStore`

A body is a text, whether it ends in blank lines, and the annotations appended to it;
the id of a document is that of its path and of the body it was given *before* the
annotation. The service and casework go on beside a command, which then no longer ran
`alone` (`Disturb`). `Register` is what `refresh_provenance` adds to the manifest,
`IngestText` what `process_one` does with an entry that is `Pending`: it writes the index
and the mirror, each a sink of `write_to_sinks`, the mirror also when the index has refused
the document. `mirrors` is left open, since `--extracted-root` is an option of
`ingest-serve`; the deployed service has it. Casework may also delete a file and put it
back (`Gone`); `Tombstone` then takes its documents from the index, and from the index
only, for `ExtractedRepoWriter` has no `remove_by_raw_path`; `deindex` reaches the mirror
only if it is told to (`Purges`). So the mirror can hold what the index does not, and
`RebuildRestores` says what a rebuild makes of that: nothing excluded comes back, but files
of tombstones do (`tombstoned` is history), and nothing else. No document of the repository
says that a deleted file stays out of a rebuilt index, so that this is listed as a hazard
and not as a finding. An entry whose file has another text by now is `Ingest`'s subject, a
registry that the running service has not read again `Exclusion`'s. A command reads what it works on first (`Begin`) and the
registry with it (`known`), then takes its items in any order. Metadata is one field,
`notes`, with the overlay of `folder_base_fields`, under which a removed key stays
stored. `OneDocumentPerText`, which three docstrings promise, fails: re-enriching a
document with a note hashes the annotated body and mints a second document.

### `Doctor`, `Alerting`, `Docling`

`Doctor` has five probes on threads, `probe_elasticsearch` in three calls, a board that
is assembled whenever the timeout says so, and sights that come and go meanwhile.
`wasUp` is history. `Alerting` sends the queries of `aggregate` one after the other,
each of which may raise and then counts as nothing; the property says which answers
this can turn into an all clear and which it cannot. `Docling` is one task: the client's
clock `waited` counts sleeps only, `elapsed` counts the calls too, each as at most one
request timeout; that of `requests` is for each read of the socket, so that a server which
answers in drops can make a call longer than `elapsed` has it.

### `Citations`, `Grounding`

A text is a sequence of words; a citation, a section, a quotation and a word of the name
of an Act are one word each. What the regular expressions do inside a word is left out;
how overlapping names are resolved (the one of the most characters first, `chars`), which Act a section belongs to and
which authorities a quotation is near to are not. `ReadsActs` says what the reading must
be in terms of all places where a name occurs. `Grounding` scans file after file in the
order of the walk and builds the report: quotations and repealed law for each file,
citations without a source gathered over all files. The properties speak of the corpus
(`CitesHeldLaw`, `QuotesHeldText`) and not of the report.

### `Claims`

A query gets at most `QuerySize` of the indexed documents, whichever
Elasticsearch returns, and pairs their claims: same subject and predicate, opposite polarity
or different object, not two encodings of one text (`Stem`), not a negation of another
object. `Person` resolves aliases, `Tier` grades the result. The worklist pairs claims
of one speaker to two audiences, ranked by the overlap of their tokens, and cut at
`MaxPairs`. `Shift` is what the detector is for, said without the loop.

## 3. Runs

| Run | Question | Result |
|---|---|---|
| `commit_stream` | Three messages (one without a sha), batches of two, two deliveries each, any two faults: is every message settled, acked only when clean, dead-lettered truthfully, and is the lifecycle implemented? | holds |
| `commit_stream_given_up` | Is there a dead letter for every commit the broker gave up? | violated by one crash at the last delivery |
| `ingest` | One file with two versions, both threads interleaved at every step, two commits with two attempts each, one failure or restart: is `SearchableArchive` implemented (acks earned, answers final, documents true and there to stay), do gaps and lost provenance heal? | holds |
| `ingest_alone` | The commit processor alone, commits of several files, a file without text and a sidecar: does provenance precede and outlive documents, and is no commit dead-lettered without cause? | holds |
| `ingest_acked` | Is every file of an acked commit indexed? | violated: the status of the old version hides the failure of the new one |
| `ingest_retained` | Does the manifest keep what it once held? | violated by the two threads, without any failure |
| `exclusion` | Two files, a prefix for their folder and one for the first file; casework, service and operator in any order, with restarts and aborted commands: do sealed and restricted files stay out, is catch-up silent, is every return exposed? | holds |
| `exclusion_purged` | Does a completed purge keep its documents out? | violated: an item selected before the purge, or a later commit, brings one back |
| `exclusion_marked` | Is no file taken in hand while its folder is marked? | violated: it was registered before the mark |
| `no_index_chain` | Every chain of three layers: is an exclusion ever lifted, misfiled or given a foreign reason, does an ordinary field come from the right layer? | holds |
| `operations` | Seven components, one at a time: are the reports of catch-up true and does its backlog drain; do edits and rebuilds take effect; are exit codes of `doctor`, `alert` and ground-check earned; does a conversion end; are shifts of account found? | holds |
| `derived_in_place` | One document for each text of a file? | violated by one run of `re-enrich` over a file with a note |

Bounds. Two deliveries give one retry and one last delivery, the two cases
`_handle` distinguishes; two faults let a crash meet a lost answer; a batch of
two lets one message's exception abandon another. In `Ingest` one path with two
versions is the least in which a manifest entry goes stale, and in which one
thread writes a manifest the other has not seen; two commits and one failure
give each of the interleavings a cause and a chance to heal. Files that are
equal, or renamed, are left out of these instances by `MayHold`, because the
manifest knows them under one path only (see the hazards); `GapsHeal` and
`NoSpuriousDeadLetter` say so.

`Exclusion` needs no bound on its history:
every variable ranges over a finite set, so that the run covers any number of
passes, commands, marks and restarts. Two prefixes of which one covers the other
let exclusions overlap and one command follow another. In `NoIndexChain` three
layers are a middle one with a broader and a narrower neighbour; layers that set
more than two keys (three for a complete exclusion) are left out of the instance,
and covered by the proofs.

In `operations`, a batch of one makes every pass but the smallest leave something
behind, and a page of one is overflowed by the second document; three paths, one of them
shut, three contents, one of them without text, and three edits are the least in which a
copy, a rename, a replaced version and a stuck entry occur with something else in the
queue. Two files, two texts (one that ends in blank lines), two notes, three changes and
three commands let an edit meet a backfill and a rebuild; an ingestion, a
second text that is registered in its place, and its deletion are the three changes it takes
to bring back a file of a tombstone. Two changes of the sights beside
a run of `doctor` let something go and come back. The grounding texts have all
sequences of up to three or four words in which two Acts, a short name inside a long one, a section, a
citation and a quotation meet; the second file adds served or unserved neighbours. Six
documents with a query size of three give cut and whole queries. A wait of 7 with an
interval of 3 is not a multiple of it, so that the last poll is late. `derived_in_place`
needs one file only.

Fairness. The processor loop, the broker's timers and the two ingest threads are
weakly fair: `run_forever` never ends, `fetch` and conversions have deadlines,
the container is restarted when it dies, and `run_periodic_catchup` starts a pass
every interval; in `CatchupBatch` the passes (`BatchStep`) are weakly fair for the
same reason, and the restart of a dead loop is not fair, since an operator may never
come. Faults, publications and commits are not due. `GapsHeal` and
`ProvenanceHeals` and `BacklogDrains` assume that the catch-up task is not dead for ever,
since the code does end it at the first exception.

Deadlock checking is off where the system may stop: all messages settled, or
every commit answered and the catch-up dead, a report finished, a conversion ended, the
bounds on changes and commands used up.

## 4. Proofs

`CommitStreamProofs` proves, for every set of messages, poison and files, every
`MaxDeliver`, `Batch`, fault set and fault bound that satisfy
`ConstantsAssumption`: the type invariant, `AckedOnlyWhenClean`,
`CopiesAreCurrent`, `DeadLettersAreTrue` and the refinement of
`TriggerLifecycle`. None of the invariants is inductive alone. The strengthening
`IInv` adds what the code relies on without saying so: how `pc` and `batch` go
together (`BatchShape`), that `outcome` is what the history recorded for the
message in hand (`AttemptInHand`), that the broker's record is consistent with
its count (`BrokerRecord`), and that no copy of a message follows its dead
letter (`NoCopyAfterDeadLetter`). Its preservation is proved action by action.
`GivenUpOnlyWithDeadLetter`, which one crash refutes, is proved for every state up to
the first fault, and for any number of faults where they are answers lost on their way
to the broker (`OnlyAnswersLost`, `GivingUpIsReported`): a message that has used up its
deliveries and is not in hand was ingested or has its event (`UsedUpOnlyWithDeadLetter`).

`ExclusionProofs` proves all five invariants of the run `exclusion` for every set
of files, paths and prefixes. The argument is an order among three copies of the
registry, `held ⊆ registry`, `seen ⊆ registry` and, while a pass is under way,
`held ⊆ seen` (`RegistryOrder`): the file only grows, a pass loads it after the
sink did, a restart ends the pass. From it, what a pass selected is never refused
(`SelectionAllowed`, `NoCryWolf`); a file sealed under `held` stays refused
(`SealsKnown`, `SealedStaysOut`); a completed purge stays in the file
(`PurgesRecorded`, `ReturnsAreExposed`). The only assumption is
`ExclusionAssumption`, the types of the two constant functions. The two promises of
`exclusion_registry.py` that the runs refute are proved under the order of work that
they need: what is purged stays out if every purge is of a prefix that the running
service has loaded, that is, register, restart, then deindex (`OrderlyPurgeSafety`: what
is purged is sealed, `PurgesSealed`); and a mark stops ingestion if it is put on files
that the service has not met (`EarlyMarksStop`).

`NoIndexChainProofs` proves all invariants of the run `no_index_chain` for chains
of any length and any set of layers. The induction is over the steps that read a
layer, so that no induction over data is needed: `LatchMeans` says what each part
of the latch means about the positions read so far, and `Reads` how reading adds
one position behind the others. `Outcome` ties the result to the latch.

`IngestProofs` proves `TypeOK`, `AckMeansSearchable` and `NothingVanishes` for both
threads, any number of paths, contents, commits, deliveries, failures and crashes. The
invariant `IngestInv` says that the log of commits tells whatever was at a path (`Was`),
and that no manifest, torn or not, no text in hand and no stamp says anything else
(`HistoryKept`, `ManifestsTrue`, `DocumentsTrue`). A content that a path held for good
and alone is `Settled`; `Secured` says that nothing is left to wait for there. Each
outcome that counts as success (skipped, written, without text) secures the path
(`ItemsTrue`, `StatusesTrue`), and nothing that follows undoes it, so that an ack rests
on it (`AcksTrue`). With the catch-up switched off (`Runners = {"commit"}`), `AloneInv`
adds that the commit thread finds the temporary file as it left it: the manifest is then
append-only (`ProvenanceRetained`), vouches for every document
(`DocumentsHaveProvenance`), and, when no content is ever at two paths, no commit is given
up for dead without a failure, a deletion or a sidecar (`NoSpuriousDeadLetter`, by
`LettersInv`: the walk registers every file of the commit that is there). The
runs `ingest_retained` and `ingest_acked` show why these need their hypotheses.

`ArchiveRefinement` proves, in `IngestProofs`, that both threads implement
`SearchableArchive`, step by step: `git commit` is `Publish`, the start of an attempt is
`Attempt`, its end is `Ack`, `GiveUp` or, when a try is left, a stutter, a write to the index is
`Index`, a tombstone is `Expunge`, and the walk, the manifest file, conversions, failures
and crashes are stutters. The guard of `Ack` is what `IngestInv` proves of statuses
(`StatusesTrue`); that of `Index` is `DocumentsTrue` with `TextsFull`, that no text in hand
is empty; that of `Expunge` is that a missing file was deleted; and `JobOpen` says that the
commit in hand has been tried and not been answered. From the same invariant,
`GrowingArchiveAcked` proves the comment that `ingest_acked` refutes, for an archive in
which nothing is deleted, replaced or copied: every file of an acked commit is in
the index or has no text.

`CatchupBatchProofs` proves `NoSilentDrop`, `CleanPassLeavesNoGap` and `OrphansAreFound`
for any tree, batch, page, edits and failures. Beside the registration of whatever is
indexed or under way (`StampsRegistered`, `WorkRegistered`), the invariant follows a pass
during which the tree is left alone: what the report does not count as remaining is told
or still to be done (`RemainderKnown`), has its document (`TextsIndexed`), and its path
has one (`PathsIndexed`). That the counts of the two loops mean what they say is
`CountsAreSound`, an argument on finite sets. `RemainderIsTrue` counts: at the end of a
pass during which the tree is left alone, the texts that still have no document are at
most as many as the report counts as remaining or dead, where `NoSilentDrop` and
`CleanPassLeavesNoGap` say something only of a report of zero. While the pass
runs, the same bound holds of those not on its work list (`OpenBounded`): an item that is
indexed takes a stamp only from another content of its path, and an item that fails is
counted. `DrainedStays` is the safe half of `BacklogDrains`: a pass removes a
document only when the file of its path is gone, and never changes what is registered.

`OperatorProofs` proves the invariants of `Doctor` (an answer UP was earned during this
run, `AnswersEarned`), `Alerting`, `Docling` (after k rounds the clock shows k intervals
and the time is bounded by the rounds, `TimeAt`; a finished conversion is seen an interval
later at most, `SeenSoon`) and `DerivedStore`. For the last, `ReEnriched`, `BackedUp` and
`Rebuilding` say for each command what the items it has already taken have achieved,
and `Accounted` that every file of the mirror is indexed, or has left the index by an
exclusion or a tombstone (`Left`). The sink refuses the excluded ones; those of tombstones
are what `RebuildSafety` lets a rebuild bring back. `NotelessInPlace` proves what the comments about
updates in place promise, and `derived_in_place` refutes, for a file that has no note
and whose text is stored as it was extracted (`Ragged` texts, which end in blank lines, are
not): what the index and the mirror hold of it has no notes, and its documents have the
ids of their texts (`PlainFile`). `InPlaceWithoutNotes` says it of the whole index. Two
theorems are about the other direction: while all is well, only a probe that hangs or raises
makes `doctor` red (`SoundBoardSafety`), and `alert` is never critical about an outage, nor
anything but 0 when all queries are answered and there is nothing to tell (`AlarmTruth`).

`AnalysisProofs` proves that any text is read for Acts as `ReadsActs` says
(`ActsReadRight`), by taking the least step of the fold at which it would go wrong; that the
loops over the files gather what each file has (`GroundingInv`), from which the exit code and
the order of the report follow; and about `Claims` that shifts are found and lead
the worklist, the latter by counting the pairs that are as similar as can be
(`SameLead`). `SelfTestHolds` proves that the self-test never makes ground-check refuse, for
any library, if quotations, citations and sections are different words, so that the
reports that the other theorems are about do come to be; `FaultsStay`, that the exit code
does not return to 0 as the scan goes on.

`LeastNatural` proves that a non-empty set of numbers has a least element, on which every
choice of a first file rests, from the well-foundedness of the subset order on finite
sets.

Assumptions. They are the types of the constants and, where more is needed: paths are
numbers, in the order of the walk (`IngestAssumption`, `CatchupAssumption`); a torn or
absent manifest is no manifest (`IngestAssumption`); the names of Acts are
sorted by their number of characters, the largest first, and none has its first word again
inside, which is so of `_ACT_SURFACES` (`CitationsAssumption`; a name of more characters
may well have fewer words); documents, claims and tokens are finite
(`ClaimsAssumption`).

Only model-checked: liveness (`EveryTriggerSettles`, `AnsweredUnlessFault`, `GapsHeal`,
`ProvenanceHeals`, `BacklogDrains`), which is out of the prover's reach. What a violation
run shows needs no proof; where the promise it refutes holds under a condition that an
operator or a corpus can meet, that is a theorem (above). The safe halves of three of
the liveness properties are proved: a settled trigger stays settled (`Refinement`), a
document stays where its file was not deleted (`NothingVanishesSafety`,
`ArchiveRefinement`), and what passes have drained stays drained (`DrainedStays`).

## 5. Not modelled

* The enricher, the dashboard, configuration, secrets, most of the MCP server and of the command
  line: requests that are made and answers that are shown, with no state that a later
  step depends on.
* Search and facets (`query.py`, `mcp/server.py`): the ranking and aggregations are
  Elasticsearch's.
* Exclusion by content hash, malformed registry lines, and dry runs.
* The composition of a refusal at the sink (`Exclusion`) with the delivery of its commit
  (`CommitStream`): each is checked for what it makes of the other.
* The counters and the report that GET /health shows: assignments that no step reads.
* Failing writes of the derived store's commands and of its tombstones, which are counted
  or logged and passed over.
* A page of the exposure query that is smaller than the index, and a cluster that is red
  while its counts succeed.
* List fields of the metadata chain, filters by matter and path, the limits `--max` of
  commands.
* The seam worklist is fed by tests only: no code makes its claims from the index, and
  `Claims` pairs those of the detector instead.
* The content and wording of events, reports and logs; back-off lengths; normalisation
  and regular expressions; a delivery that arrives after its pull timed out and waits in
  the client.
