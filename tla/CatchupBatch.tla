----------------------------- MODULE CatchupBatch -----------------------------
(***************************************************************************)
(* Bounded catch-up passes (ingest/catchup.py) and the two reports that    *)
(* look for what they left: the gaps of reconcile (ingest/reconcile.py)    *)
(* and the orphans of audit (observability/reconcile.py).                  *)
(*                                                                         *)
(* No commit is processed here: the hook is broken, or the service has     *)
(* just been started, and one pass after the other must close the gap.     *)
(* Module Ingest has the races and the crashes, without the batch.         *)
(***************************************************************************)
EXTENDS Naturals, FiniteSets

CONSTANTS
    Paths,        \* numbers, in the order of the walk
    Shut,         \* paths of media, restricted or excluded files
    Contents,     \* numbers, in the order of their sha256
    Blank,        \* contents Docling finds no text in
    Nothing,      \* no file, no path, no content
    Batch,        \* batch
    Page,         \* page of all_indexed_raw_paths
    MaxEdits,     \* bound: changes of the raw tree
    MaxFailed     \* bound: conversions and writes that fail

ASSUME CatchupAssumption ==
    /\ Paths \subseteq Nat /\ Contents \subseteq Nat
    /\ IsFiniteSet(Paths) /\ IsFiniteSet(Contents)
    /\ Shut \subseteq Paths /\ Blank \subseteq Contents
    /\ Nothing \notin Paths \cup Contents
    /\ Batch \in Nat \ {0} /\ Page \in Nat

VARIABLES
    tree,      \* the raw tree: the content of each path
    manifest,  \* the path of each content
    store,     \* the index: <<path, text>> -> the raw_sha256 of that document
    told,      \* the contents that a terminal event was emitted for
    todo,      \* the contents in reingest_from_raw, a set; or Idle
    report,    \* the report of the pass under way or of the last one
    calm,      \* no edit since that pass began
    alive,     \* the loop of passes; an exception out of a pass ends it
    edits, failed

catchupVars == <<tree, manifest, store, told, todo, report, calm, alive,
                edits, failed>>

Idle == {Nothing}

InIndex == {d \in Paths \X Contents : store[d] # Nothing}
IndexedShas == {store[d] : d \in InIndex}

(* refresh_provenance: what is registered keeps its path, anything else gets the
   first path that holds it. *)
FirstAt(c) == CHOOSE p \in Paths : tree[p] = c /\ \A q \in Paths : tree[q] = c => p <= q
RefreshedByCurrentPath ==
    [c \in Contents |-> IF \E p \in Paths : tree[p] = c THEN FirstAt(c) ELSE manifest[c]]
RefreshedManifest ==
    [c \in Contents |->
        IF manifest[c] = Nothing /\ \E p \in Paths : tree[p] = c THEN FirstAt(c) ELSE manifest[c]]

(* The order of manifest.items(): what was on disk by sha, then what this pass
   has registered in the order of the walk. *)
Earlier(c, d) ==
    CASE manifest[c] # Nothing /\ manifest[d] # Nothing -> c < d
      [] manifest[c] = Nothing /\ manifest[d] = Nothing -> FirstAt(c) < FirstAt(d)
      [] OTHER -> manifest[c] # Nothing

(* entry_is_ingestable and source_is_present, of an entry with path p. *)
Ingestable(p) == p \notin Shut \cup {Nothing}
Present(p) == tree[p] # Nothing

(* count_pending counts these, count_missing_source those without a file;
   select_pending takes the first of the former. *)
WantedShas(entries) == {c \in Contents \ IndexedShas : Ingestable(entries[c])}
PendingUntold(entries) == {c \in WantedShas(entries) \ told : Present(entries[c])}
PendingShas(entries) == {c \in WantedShas(entries) : Present(entries[c])}
Selection(pending) == {c \in pending : Cardinality({d \in pending : Earlier(d, c)}) < Batch}
BacklogOfBatch(pending) ==
    LET counted == Selection(pending)
    IN  Cardinality(counted) - Cardinality(Selection(counted))
Backlog(pending) == Cardinality(pending) - Cardinality(Selection(pending))

(* The work list: every entry with the path of a selected one that is not indexed. *)
WorkItems(entries, selected) ==
    {c \in Contents \ IndexedShas : \E s \in selected : entries[c] = entries[s]}

-----------------------------------------------------------------------------
CatchupInit ==
    /\ tree = [p \in Paths |-> Nothing]
    /\ manifest = [c \in Contents |-> Nothing]
    /\ store = [d \in Paths \X Contents |-> Nothing]
    /\ told = {} /\ todo = Idle
    /\ report = [remaining |-> 0, dead |-> 0, missing |-> 0]
    /\ calm = FALSE /\ alive = TRUE /\ edits = 0 /\ failed = 0

(* Casework writes, overwrites, copies or deletes a file. *)
EditTree ==
    /\ edits < MaxEdits /\ edits' = edits + 1
    /\ \E p \in Paths, c \in Contents \cup {Nothing} :
         tree[p] # c /\ tree' = [tree EXCEPT ![p] = c]
    /\ calm' = FALSE
    /\ UNCHANGED <<manifest, store, told, todo, report, alive, failed>>

BeginBatch ==
    /\ todo = Idle /\ alive
    /\ LET pending == PendingShas(RefreshedManifest)
       IN  /\ todo' = WorkItems(RefreshedManifest, Selection(pending))
           /\ report' = [remaining |-> Backlog(pending), dead |-> 0,
                         missing |-> Cardinality(WantedShas(RefreshedManifest) \ pending)]
    /\ manifest' = RefreshedManifest
    /\ calm' = TRUE
    /\ UNCHANGED <<tree, store, told, alive, edits, failed>>

(* process_one for content c: its file may be gone by now, or hold other bytes. *)
ItemEnds(c, dead) ==
    /\ told' = told \cup {c}
    /\ todo' = todo \ {c}
    /\ report' = [report EXCEPT !.dead = @ + dead]
    /\ UNCHANGED <<tree, manifest, calm, edits>>

TombstoneGone(c) ==
    LET p == manifest[c]
    IN  /\ ~Present(p)
        /\ store' = [d \in DOMAIN store |-> IF d[1] = p THEN Nothing ELSE store[d]]
        /\ ItemEnds(c, 1) /\ UNCHANGED <<alive, failed>>

(* The file was there when process_one looked and is gone when convert_file opens it:
   no DoclingError, so that the exception leaves the pass when the pool is done. *)
RaiseGone(c) ==
    /\ ~Present(manifest[c])
    /\ alive' = FALSE
    /\ todo' = todo \ {c}
    /\ UNCHANGED <<tree, manifest, store, told, report, calm, edits, failed>>

SkipBlank(c) ==
    /\ Present(manifest[c]) /\ tree[manifest[c]] \in Blank
    /\ ItemEnds(c, 0) /\ UNCHANGED <<store, alive, failed>>

IndexText(c) ==
    LET p == manifest[c]
    IN  /\ Present(p) /\ tree[p] \notin Blank
        /\ store' = [store EXCEPT ![<<p, tree[p]>>] = c]
        /\ ItemEnds(c, 0) /\ UNCHANGED <<alive, failed>>

ItemFailsUncounted(c) ==
    /\ Present(manifest[c])
    /\ failed < MaxFailed /\ failed' = failed + 1
    /\ ItemEnds(c, 0) /\ UNCHANGED <<store, alive>>
ItemFails(c) ==
    /\ Present(manifest[c])
    /\ failed < MaxFailed /\ failed' = failed + 1
    /\ ItemEnds(c, 1) /\ UNCHANGED <<store, alive>>

EndBatch ==
    /\ todo = {}
    /\ todo' = Idle
    /\ UNCHANGED <<tree, manifest, store, told, report, calm, alive, edits, failed>>

(* An operator restarts the service, sooner or later or never. *)
RestartLoop ==
    /\ ~alive /\ todo = Idle /\ alive' = TRUE
    /\ UNCHANGED <<tree, manifest, store, told, todo, report, calm, edits, failed>>

ProcessItem(c) == TombstoneGone(c) \/ RaiseGone(c) \/ SkipBlank(c) \/ IndexText(c) \/ ItemFails(c)

BatchStep == BeginBatch \/ (\E c \in todo \ Idle : ProcessItem(c)) \/ EndBatch

CatchupNext == EditTree \/ BatchStep \/ RestartLoop

(* run_periodic_catchup runs one pass after the other. *)
CatchupFairness == WF_catchupVars(BatchStep)

CatchupSpec == CatchupInit /\ [][CatchupNext]_catchupVars /\ CatchupFairness

-----------------------------------------------------------------------------
(* What the operator can ask.  reconcile_gap: the paths whose content is not in the
   index. *)
Gap == {p \in Paths : Ingestable(p) /\ Present(p) /\ tree[p] \notin IndexedShas}

(* audit --orphans, from the part of the index that one page shows (every document if
   there are at most Page): the registered paths without a file, with the document
   to expunge or Nothing. *)
Pages == {S \in SUBSET InIndex :
            Cardinality(S) = IF Cardinality(InIndex) <= Page
                             THEN Cardinality(InIndex) ELSE Page}
Registered == {manifest[c] : c \in Contents} \ {Nothing}
Orphans(page) ==
    {[path |-> p, indexed |-> \E d \in page : d[1] = p] : p \in {q \in Registered : ~Present(q)}}
AuditMissing(page) == Registered \ {d[1] : d \in page}

(* The exit codes of audit --orphans, and of reconcile --ingest when it found a gap. *)
AuditExit(page) == IF AuditMissing(page) = {} /\ Orphans(page) = {} THEN 0 ELSE 1
IngestExit == IF report.remaining = 0 THEN 0 ELSE 1

-----------------------------------------------------------------------------
(* A pass is over, and the tree is as it was when the pass began. *)
JustEnded == calm /\ todo = Idle /\ alive

(* The report of a pass accounts for everything: a registered entry that could be ingested
   is in the index, or an event says what became of it, or the report says that
   something remains (degraded) or has no file.  Two counts and a selection, each a
   loop over the manifest, must agree for it. *)
NoSilentDrop ==
    JustEnded /\ report.remaining = 0 =>
        \A c \in Contents :
            Ingestable(manifest[c]) /\ (Present(manifest[c]) \/ report.missing = 0)
                => c \in IndexedShas \cup told

(* Several contents are registered for p: the documents of p change their stamps
   from pass to pass. *)
Superseded(p) == \E c \in Contents : manifest[c] = p /\ tree[p] # c

(* A clean report (nothing remains, on which reconcile --ingest exits 0, and nothing was
   dead-lettered, for which it does not look) is the truth about the tree
   that reconcile walks, with three exceptions: files without text; copies of what is
   registered under a path where it is not or may not be ingested; and files whose path
   had another content that was never indexed.  If no source is missing either, audit
   misses only what is not ingested or has no text. *)
CleanPassLeavesNoGap ==
    JustEnded /\ IngestExit = 0 /\ report.dead = 0 =>
        /\ \A p \in Gap :
             LET home == manifest[tree[p]]
             IN  \/ tree[p] \in Blank
                 \/ home # p /\ (~Ingestable(home) \/ tree[home] # tree[p])
                 \/ Superseded(home)
        /\ report.missing = 0 => \A p \in AuditMissing(InIndex) :
             ~Ingestable(p) \/ tree[p] \in Blank

(* Slots of the batch that are lost for ever: entries that stay pending. *)
Stuck == {c \in Contents : /\ Ingestable(manifest[c]) /\ Present(manifest[c])
                           /\ tree[manifest[c]] # c \/ tree[manifest[c]] \in Blank}

(* The file was overwritten while an item with its sha was under way: another text has
   its stamp, and if the file comes back it counts as indexed. *)
Misstamped(c) == \E d \in InIndex : store[d] = c /\ d # <<manifest[c], c>>

(* The passes drain the backlog: a file with text that stays where it is registered
   gets its document, in spite of the bound of a pass and of failures, unless entries that
   can never be indexed fill the batch of every pass, another text has its stamp, or the
   loop has died. *)
BacklogDrains ==
    \A p \in Paths \ Shut, c \in Contents \ Blank :
        <>[](/\ tree[p] = c /\ manifest[c] = p
             /\ Cardinality(Stuck) < Batch /\ ~Misstamped(c) /\ alive)
            => <>[](store[<<p, c>>] # Nothing)

(* No document of a deleted file is hidden from audit --orphans, and no orphan is said to
   have a document that has none, as long as the index fits one page: passes register
   a path before they index it, and for good.  Its exit code 0 can be relied on even
   beyond the page: every document is of a registered file that is there. *)
OrphansAreFound ==
    \A page \in Pages :
        /\ Cardinality(InIndex) <= Page =>
             {o.path : o \in {x \in Orphans(page) : x.indexed}}
                 = {d[1] : d \in {e \in InIndex : ~Present(e[1])}}
        /\ AuditExit(page) = 0 => {d[1] : d \in InIndex} = Registered
                                  /\ \A p \in Registered : Present(p)

==============================================================================
