------------------------------- MODULE Ingest -------------------------------
(***************************************************************************)
(* What the ingest service does to the corpus: commits change the raw tree,*)
(* the commit processor ingests the files a commit changed, the catch-up   *)
(* pass ingests whatever the manifest holds and the index lacks.  Both run *)
(* in one process, in threads of their own, and share the provenance       *)
(* manifest on disk (with the temporary file it is written through) and    *)
(* the index.                                                              *)
(*                                                                         *)
(* A file's bytes are a member of Contents, which stands for their sha256  *)
(* as well as for the text Docling extracts from them.  Deliveries of a    *)
(* commit are counted here by tries; the broker is module CommitStream.    *)
(* Media files, no_index files, the exclusion registry and the batch cap of*)
(* a catch-up pass are not here.                                           *)
(*                                                                         *)
(* _atomic_write_json is not atomic between the two threads, for they share*)
(* the name of its temporary file: a file one thread has opened may be     *)
(* truncated, written or moved over the manifest by the other.  handle[r]  *)
(* follows the file thread r has open through those moves.                 *)
(***************************************************************************)
EXTENDS Naturals, Sequences, FiniteSets

CONSTANTS Paths,        \* evidence paths, numbered in the order of the walk
          Contents,     \* byte contents
          Empty,        \* contents Docling extracts nothing from
          Sidecars,     \* the <file>.metadata.yaml paths among Paths
          MayHold(_, _),\* which contents a path may be given
          Edits,        \* what commits do: subset of {"add", "modify", "delete"}
          Runners,      \* the threads that run: the periodic catch-up may be off
          MaxCommits,   \* bound on the history of the raw repository
          MaxDeliver,   \* attempts per commit
          MaxFailures,  \* bound: Docling, git, Elasticsearch errors and crashes
          None,         \* no content, path or file
          Torn          \* a manifest file that is not JSON: truncated, or written over

Threads == {"commit", "catchup"}

ASSUME IngestAssumption ==
    /\ Paths \subseteq Nat /\ IsFiniteSet(Paths)
    /\ {None, Torn} \cap (Contents \cup Paths) = {} /\ None # Torn
    /\ {None, Torn} \cap [Contents -> Paths \cup {None}] = {}
    /\ Empty \subseteq Contents /\ Sidecars \subseteq Paths
    /\ Edits \subseteq {"add", "modify", "delete"}
    /\ Runners \subseteq Threads
    /\ MaxCommits \in Nat /\ MaxDeliver \in Nat \ {0} /\ MaxFailures \in Nat

VARIABLES
    raw,       \* raw[p]: the content at p in the working tree, or None
    log,       \* log[i]: what commit i put at the paths it added or changed
    verdict,   \* verdict[i]: "queued", "acked" or "dead"
    tries,     \* tries[i]: attempts made at commit i
    manifest,  \* the file: manifest[c] is the path registered for content c, or
               \* None; or Torn
    tmp,       \* the manifest's temporary file: a manifest, Torn, or None
    handle,    \* handle[r]: where the file is now that thread r has open: "tmp",
               \* "manifest", "gone" (replaced since), or "closed"
    index,     \* index[<<p, t>>]: the raw_sha256 of the document with raw_path
               \* p and text t, or None when there is no such document
    pc,        \* pc[r]: where thread r is
    job,       \* the commit in hand, 0 when there is none
    known,     \* known[r]: the manifest as thread r read it
    item,      \* item[r][c]: how far thread r is with the entry of content c
    text,      \* text[r][c]: what Docling extracted for it
    statuses,  \* statuses[p]: the outcome recorded for path p of the job
    failures,  \* injected so far
    gone,      \* history: the paths ever deleted from the raw tree
    registered \* history: the contents the manifest has ever held

vars == <<raw, log, gone, verdict, tries, manifest, tmp, handle, registered, index,
          pc, job, known, item, text, statuses, failures>>

repo == <<raw, log, gone>>
queue == <<verdict, tries>>
store == <<manifest, tmp, handle, registered>>
thread == <<job, known, item, text, statuses>>

Manifests == [Contents -> Paths \cup {None}]
Docs == Paths \X Contents
NoManifest == [c \in Contents |-> None]
NoItems == [c \in Contents |-> "none"]
NoTexts == [c \in Contents |-> None]
NoStatuses == [p \in Paths |-> "none"]
Started == [r \in Threads |-> IF r \in Runners THEN "idle" ELSE "off"]

TypeOK ==
    /\ raw \in [Paths -> Contents \cup {None}]
    /\ \A i \in DOMAIN log : log[i] \in UNION {[P -> Contents] : P \in SUBSET Paths}
    /\ verdict \in [1..Len(log) -> {"queued", "acked", "dead"}]
    /\ tries \in [1..Len(log) -> 0..MaxDeliver]
    /\ manifest \in Manifests \cup {Torn}
    /\ tmp \in Manifests \cup {Torn, None}
    /\ handle \in [Threads -> {"closed", "tmp", "manifest", "gone"}]
    /\ index \in [Docs -> Contents \cup {None}]
    /\ pc \in [Threads -> {"off", "idle", "walk", "write", "replace", "load", "reingest", "dead"}]
    /\ job \in 0..Len(log)
    /\ known \in [Threads -> Manifests]
    /\ item \in [Threads -> [Contents -> {"none", "skip", "todo", "gone", "converted", "done"}]]
    /\ text \in [Threads -> [Contents -> Contents \cup {None}]]
    /\ statuses \in [Paths -> {"none", "ok", "failed"}]
    /\ failures \in 0..MaxFailures
    /\ gone \subseteq Paths
    /\ registered \subseteq Contents

Init ==
    /\ raw = [p \in Paths |-> None]
    /\ log = <<>> /\ verdict = <<>> /\ tries = <<>>
    /\ manifest = NoManifest /\ tmp = None
    /\ handle = [r \in Threads |-> "closed"]
    /\ index = [d \in Docs |-> None]
    /\ pc = Started
    /\ job = 0
    /\ known = [r \in Threads |-> NoManifest]
    /\ item = [r \in Threads |-> NoItems]
    /\ text = [r \in Threads |-> NoTexts]
    /\ statuses = NoStatuses
    /\ failures = 0
    /\ gone = {} /\ registered = {}

-----------------------------------------------------------------------------
(* The raw repository *)

EditOf(old, new) ==
    IF old = new THEN "none" ELSE IF old = None THEN "add"
    ELSE IF new = None THEN "delete" ELSE "modify"

(* A commit on goldberg-raw takes effect in the working tree, and the hook
   publishes it.  changed_files will resolve it to what it added or modified,
   without its deletions. *)
GitCommit ==
    /\ Len(log) < MaxCommits
    /\ \E tree \in [Paths -> Contents \cup {None}] :
         /\ tree # raw
         /\ \A p \in Paths :
              /\ EditOf(raw[p], tree[p]) \in Edits \cup {"none"}
              /\ tree[p] # None => MayHold(p, tree[p])
         /\ raw' = tree
         /\ LET changed == {p \in Paths : tree[p] # raw[p] /\ tree[p] # None}
            IN  log' = Append(log, [p \in changed |-> tree[p]])
         /\ gone' = gone \cup {p \in Paths : raw[p] # None /\ tree[p] = None}
    /\ verdict' = Append(verdict, "queued")
    /\ tries' = Append(tries, 0)
    /\ UNCHANGED <<store, index, pc, thread, failures>>

-----------------------------------------------------------------------------
(* Failures *)

Failure == failures < MaxFailures /\ failures' = failures + 1
NoFailure == UNCHANGED failures

(* Thread r forgets what it was doing. *)
Reset(r) ==
    /\ job' = IF r = "commit" THEN 0 ELSE job
    /\ statuses' = IF r = "commit" THEN NoStatuses ELSE statuses
    /\ known' = [known EXCEPT ![r] = NoManifest]
    /\ item' = [item EXCEPT ![r] = NoItems]
    /\ text' = [text EXCEPT ![r] = NoTexts]

(* _handle: ack when nothing failed, else nak until the last delivery. *)
Answer(failed) ==
    verdict' = [verdict EXCEPT ![job] =
        IF ~failed THEN "acked"
        ELSE IF tries[job] >= MaxDeliver THEN "dead" ELSE "queued"]

(* An exception leaves the thread's work.  Around process_commit it is caught
   and counts as a failed attempt; run_periodic_catchup does not catch it, and
   there is no pass after it. *)
Raise(r) ==
    /\ Reset(r)
    /\ IF r = "commit"
       THEN Answer(TRUE) /\ pc' = [pc EXCEPT ![r] = "idle"]
       ELSE UNCHANGED verdict /\ pc' = [pc EXCEPT ![r] = "dead"]
    /\ UNCHANGED <<repo, tries, index>>

-----------------------------------------------------------------------------
(* refresh_provenance *)

(* The manifest as it is read: a file that does not parse counts as empty. *)
OnDisk == IF manifest = Torn THEN NoManifest ELSE manifest

DeliverableForever(i) == verdict[i] = "queued"
Deliverable(i) == verdict[i] = "queued" /\ tries[i] < MaxDeliver

BeginCommit(i) ==
    /\ pc["commit"] = "idle" /\ Deliverable(i)
    /\ job' = i
    /\ tries' = [tries EXCEPT ![i] = @ + 1]
    /\ pc' = [pc EXCEPT !["commit"] = "walk"]
    /\ known' = [known EXCEPT !["commit"] = OnDisk]
    /\ UNCHANGED <<repo, verdict, store, index, item, text, statuses, failures>>

BeginCatchup ==
    /\ pc["catchup"] = "idle"
    /\ pc' = [pc EXCEPT !["catchup"] = "walk"]
    /\ known' = [known EXCEPT !["catchup"] = OnDisk]
    /\ UNCHANGED <<repo, queue, store, index, job, item, text, statuses, failures>>

Holders(c) == {p \in Paths \ Sidecars : raw[p] = c}
FirstHolder(c) == CHOOSE p \in Holders(c) : \A q \in Holders(c) : p <= q

(* The walk registers each content it does not know under the first path that
   holds it; a content it knows keeps the path it has. *)
RefreshedByPath(m) ==
    [c \in Contents |->
        IF m[c] # None \/ Holders(c) = {} \/ \E k \in Contents : m[k] \in Holders(c)
        THEN m[c] ELSE FirstHolder(c)]
RefreshedPruned(m) ==
    [c \in Contents |->
        IF Holders(c) = {} THEN None
        ELSE IF m[c] # None THEN m[c] ELSE FirstHolder(c)]
Refreshed(m) ==
    [c \in Contents |->
        IF m[c] # None \/ Holders(c) = {} THEN m[c] ELSE FirstHolder(c)]

(* The walk; when it found something new, the temporary file is opened, which
   truncates it if it is there. *)
Walk(r) ==
    /\ pc[r] = "walk"
    /\ known' = [known EXCEPT ![r] = Refreshed(@)]
    /\ IF Refreshed(known[r]) = known[r]
       THEN /\ pc' = [pc EXCEPT ![r] = "load"]
            /\ UNCHANGED <<tmp, handle>>
       ELSE /\ tmp' = Torn
            /\ handle' = [handle EXCEPT ![r] = "tmp"]
            /\ pc' = [pc EXCEPT ![r] = "write"]
    /\ UNCHANGED <<repo, queue, manifest, registered, index, job, item, text,
                   statuses, failures>>

Known(m) == IF m = Torn THEN {} ELSE {c \in Contents : m[c] # None}

(* What is in a file after m is written from its start: the tail of a longer
   text the other thread wrote meanwhile stays. *)
Written(file, m) == IF file \in {Torn, m} THEN {m} ELSE {m, Torn}

(* The text is written to the open file, wherever that is now. *)
Write(r) ==
    /\ pc[r] = "write"
    /\ IF handle[r] = "tmp" THEN tmp' \in Written(tmp, known[r]) ELSE UNCHANGED tmp
    /\ IF handle[r] = "manifest" THEN manifest' \in Written(manifest, known[r])
       ELSE UNCHANGED manifest
    /\ registered' = registered \cup Known(manifest')
    /\ handle' = [handle EXCEPT ![r] = "closed"]
    /\ pc' = [pc EXCEPT ![r] = "replace"]
    /\ UNCHANGED <<repo, queue, index, thread, failures>>

(* os.replace: the temporary file, whoever wrote it, becomes the manifest. *)
Replace(r) ==
    /\ pc[r] = "replace" /\ tmp # None
    /\ manifest' = tmp /\ tmp' = None
    /\ registered' = registered \cup Known(tmp)
    /\ handle' = [s \in Threads |-> IF handle[s] = "tmp" THEN "manifest"
                                    ELSE IF handle[s] = "manifest" THEN "gone" ELSE handle[s]]
    /\ pc' = [pc EXCEPT ![r] = "load"]
    /\ UNCHANGED <<repo, queue, index, thread, failures>>

(* The other thread has moved it away already: FileNotFoundError. *)
ReplaceRaises(r) ==
    /\ pc[r] = "replace" /\ tmp = None
    /\ Raise(r) /\ NoFailure
    /\ UNCHANGED store

-----------------------------------------------------------------------------
(* The work list *)

Indexed == {index[d] : d \in Docs} \ {None}
JobFiles == DOMAIN log[job]

WorkListOfNew(m, only) ==
    [c \in Contents |-> IF m[c] \notin only \/ c \in Indexed THEN "none" ELSE "todo"]

(* reingest_from_raw goes through the entries of manifest m with a path in
   only; those in the index now are skipped when their turn comes. *)
WorkList(m, only) ==
    [c \in Contents |-> IF m[c] \notin only THEN "none"
                       ELSE IF c \in Indexed THEN "skip" ELSE "todo"]

(* process_commit goes on with the manifest on disk and its changed files; a
   commit without ingestable files is done. *)
LoadCommit ==
    /\ pc["commit"] = "load"
    /\ IF JobFiles = {}
       THEN /\ Answer(FALSE) /\ Reset("commit")
            /\ pc' = [pc EXCEPT !["commit"] = "idle"]
       ELSE /\ known' = [known EXCEPT !["commit"] = OnDisk]
            /\ item' = [item EXCEPT !["commit"] = WorkList(OnDisk, JobFiles)]
            /\ pc' = [pc EXCEPT !["commit"] = "reingest"]
            /\ UNCHANGED <<verdict, job, text, statuses>>
    /\ UNCHANGED <<repo, tries, store, index, failures>>

(* run_catchup goes on with the manifest it built itself; a pending entry is
   one not indexed whose file exists, and every entry with the path of a
   pending one is handed to reingest_from_raw. *)
Pending == {c \in Contents : /\ known["catchup"][c] # None
                             /\ c \notin Indexed
                             /\ raw[known["catchup"][c]] # None}

LoadCatchup ==
    /\ pc["catchup"] = "load"
    /\ IF Pending = {}
       THEN Reset("catchup") /\ pc' = [pc EXCEPT !["catchup"] = "idle"]
       ELSE LET only == {known["catchup"][c] : c \in Pending} IN
            /\ item' = [item EXCEPT !["catchup"] = WorkList(known["catchup"], only)]
            /\ pc' = [pc EXCEPT !["catchup"] = "reingest"]
            /\ UNCHANGED <<job, known, text, statuses>>
    /\ UNCHANGED <<repo, queue, store, index, failures>>

(* The git command fails (GitResolutionError), or Elasticsearch cannot say what
   it holds. *)
LoadRaises(r) ==
    /\ pc[r] = "load"
    /\ Raise(r) /\ Failure
    /\ UNCHANGED store

-----------------------------------------------------------------------------
(* process_one, on a pool with room for every item *)

(* Item c of thread r ends with a status for its path; process_commit keeps
   the last status of each path. *)
Record(r, c, status) ==
    /\ item' = [item EXCEPT ![r][c] = "done"]
    /\ statuses' = IF r = "commit"
                   THEN [statuses EXCEPT ![known[r][c]] = status] ELSE statuses

AtItem(r, c, step) == pc[r] = "reingest" /\ item[r][c] = step

SkipItem(r, c) ==
    /\ AtItem(r, c, "skip")
    /\ Record(r, c, "ok")
    /\ UNCHANGED <<repo, queue, store, index, pc, job, known, text, failures>>

MissingWhenModified(r, c) == raw[known[r][c]] # c
Missing(r, c) == raw[known[r][c]] = None

(* The file is gone: the item will tombstone what the index has at its path. *)
FindMissing(r, c) ==
    /\ AtItem(r, c, "todo") /\ Missing(r, c)
    /\ item' = [item EXCEPT ![r][c] = "gone"]
    /\ UNCHANGED <<repo, queue, store, index, pc, job, known, text, statuses, failures>>

(* remove_by_raw_path; its own errors are swallowed. *)
Tombstone(r, c) ==
    /\ AtItem(r, c, "gone")
    /\ \/ /\ index' = [d \in Docs |-> IF d[1] = known[r][c] THEN None ELSE index[d]]
          /\ NoFailure
       \/ UNCHANGED index /\ Failure
    /\ Record(r, c, "ok")
    /\ UNCHANGED <<repo, queue, store, pc, job, known, text>>

(* Docling is given whatever bytes are at the path now. *)
Convert(r, c) ==
    /\ AtItem(r, c, "todo") /\ ~Missing(r, c)
    /\ LET content == raw[known[r][c]] IN
       \/ /\ content \in Empty
          /\ Record(r, c, "ok") /\ NoFailure /\ UNCHANGED text
       \/ /\ content \notin Empty
          /\ text' = [text EXCEPT ![r][c] = content]
          /\ item' = [item EXCEPT ![r][c] = "converted"]
          /\ NoFailure /\ UNCHANGED statuses
       \/ Record(r, c, "failed") /\ Failure /\ UNCHANGED text
    /\ UNCHANGED <<repo, queue, store, index, pc, job, known>>

(* The document's id comes from its path and text, its raw_sha256 from the
   manifest entry. *)
WriteDoc(r, c) ==
    /\ AtItem(r, c, "converted")
    /\ \/ /\ index' = [index EXCEPT ![<<known[r][c], text[r][c]>>] = c]
          /\ Record(r, c, "ok") /\ NoFailure
       \/ UNCHANGED index /\ Record(r, c, "failed") /\ Failure
    /\ text' = [text EXCEPT ![r][c] = None]
    /\ UNCHANGED <<repo, queue, store, pc, job, known>>

AllDone(r) == pc[r] = "reingest" /\ \A c \in Contents : item[r][c] \in {"none", "done"}

(* A changed file without a status was not manifested: transient "missing". *)
FileFailedIfRecorded(p) == statuses[p] = "failed"
FileFailed(p) == statuses[p] # "ok"

EndCommit ==
    /\ AllDone("commit")
    /\ Answer(\E p \in JobFiles : FileFailed(p))
    /\ Reset("commit")
    /\ pc' = [pc EXCEPT !["commit"] = "idle"]
    /\ UNCHANGED <<repo, tries, store, index, failures>>

EndCatchup ==
    /\ AllDone("catchup")
    /\ Reset("catchup")
    /\ pc' = [pc EXCEPT !["catchup"] = "idle"]
    /\ UNCHANGED <<repo, queue, store, index, failures>>

(* The process dies and is restarted: both threads start afresh, the manifest
   and its temporary file stay as they are. *)
Crash ==
    /\ Failure
    /\ pc' = Started
    /\ job' = 0 /\ statuses' = NoStatuses
    /\ known' = [r \in Threads |-> NoManifest]
    /\ item' = [r \in Threads |-> NoItems] /\ text' = [r \in Threads |-> NoTexts]
    /\ handle' = [r \in Threads |-> "closed"]
    /\ UNCHANGED <<repo, queue, manifest, tmp, registered, index>>

-----------------------------------------------------------------------------
Refresh(r) == Walk(r) \/ Write(r) \/ Replace(r) \/ ReplaceRaises(r)

Process(r) == \E c \in Contents : \/ SkipItem(r, c) \/ FindMissing(r, c) \/ Tombstone(r, c)
                                  \/ Convert(r, c) \/ WriteDoc(r, c)

CommitThread ==
    \/ \E i \in DOMAIN log : BeginCommit(i)
    \/ Refresh("commit") \/ LoadCommit \/ LoadRaises("commit")
    \/ Process("commit") \/ EndCommit

CatchupThread ==
    \/ BeginCatchup
    \/ Refresh("catchup") \/ LoadCatchup \/ LoadRaises("catchup")
    \/ Process("catchup") \/ EndCatchup

Next ==
    \/ GitCommit
    \/ CommitThread
    \/ CatchupThread
    \/ Crash

(* Both loops run for ever; failures are not due but are finitely many. *)
Fairness == WF_vars(CommitThread) /\ WF_vars(CatchupThread)

Spec == Init /\ [][Next]_vars /\ Fairness

-----------------------------------------------------------------------------
(* Properties *)

(* c is the only content that was ever at p, and p the only path of c. *)
Settled(p, c) ==
    /\ p \notin gone
    /\ \A i \in DOMAIN log : \A q \in DOMAIN log[i] : q = p <=> log[i][q] = c

HasDocument(p, c) == index[<<p, c>>] # None

(* When a commit is acked, each file it brought is in the index (or has no
   text), provided the file has had one version only and no duplicate: neither
   a lost manifest, nor a failed attempt, a concurrent catch-up or a restart
   makes the processor ack what is not searchable. *)
AckMeansSearchable ==
    \A i \in DOMAIN log :
        verdict[i] = "acked" =>
            \A p \in DOMAIN log[i] :
                Settled(p, log[i][p]) /\ log[i][p] \notin Empty
                    => HasDocument(p, log[i][p])

(* A document leaves the index only when its path was deleted from the raw
   tree at some time: modifying a file, retries and races never tombstone. *)
NothingVanishes ==
    [][\A d \in Docs : index[d] # None /\ index'[d] = None => d[1] \in gone]_vars

CatchupLives == ~<>[](pc["catchup"] = "dead")

(* Self-healing: a file that stays where it is gets its document and keeps it,
   whatever failed on the way, unless the periodic catch-up died of an
   exception and is never restarted.  (Each content has a path of its own in
   the model that checks this.) *)
GapsHeal ==
    CatchupLives =>
        \A p \in Paths \ Sidecars, c \in Contents \ Empty :
            <>[](raw[p] = c) => <>[]HasDocument(p, c)

(* Provenance lost to the race of the two threads, or to a manifest that does
   not parse, comes back for every file that is still there. *)
ProvenanceHeals ==
    CatchupLives =>
        \A p \in Paths \ Sidecars, c \in Contents :
            <>[](raw[p] = c) => <>[](manifest # Torn /\ OnDisk[c] = p)

(* The module comment of processor.py: a message is acked after the terminal
   outcome of its files.  So a file an acked commit brought, if it has text
   and is still there, has its document. *)
AckedFilesAreIndexed ==
    \A i \in DOMAIN log :
        verdict[i] = "acked" =>
            \A p \in DOMAIN log[i] :
                raw[p] = log[i][p] /\ raw[p] \notin Empty => HasDocument(p, raw[p])

(* A document's stamp is provenance: the manifest registers that content under
   the document's path, also after the file, or the process, is gone. *)
DocumentsHaveProvenance ==
    \A d \in Docs : index[d] # None => OnDisk[index[d]] = d[1]

(* When nothing fails, a commit is dead-lettered only over a file that was
   deleted or a sidecar it brought: being late, being overtaken by the next
   commit or repeating what is indexed does not count against it.  (Each
   content has a path of its own in the model that checks this.) *)
NoSpuriousDeadLetter ==
    \A i \in DOMAIN log :
        verdict[i] = "dead" /\ failures = 0
            => DOMAIN log[i] \cap (gone \cup Sidecars) # {}

(* source_is_present: the manifest is append-only provenance.  So what it once
   held it holds, whenever it can be read. *)
ProvenanceRetained == manifest # Torn => registered \subseteq Known(manifest)

(* The two threads, the files they share, their retries and crashes implement
   the archive's promise: no step acks early, answers a commit twice or gives
   it up with tries left, indexes a text that was never at its path, or drops
   a document of a path that was not deleted. *)
DocsHeld == {d \in Docs : index[d] # None}

Archive == INSTANCE SearchableArchive WITH
    MaxTries <- MaxDeliver,
    docs <- DocsHeld

ImplementsArchive == Archive!ArchiveSpec
=============================================================================
