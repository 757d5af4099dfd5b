----------------------------- MODULE DerivedStore -----------------------------
(***************************************************************************)
(* The identity of a document on its way between the index and the files   *)
(* of goldberg-extracted: ingestion, the tombstones of deleted files and   *)
(* re-enrich (reingest.py, pipeline.py), backfill-extracted and            *)
(* reindex-from-extracted (extracted.py, cli.py), deindex.                 *)
(*                                                                         *)
(* A body is a text and the annotations appended to it; a text may end in  *)
(* blank lines, which a file with frontmatter does not keep.  What the     *)
(* enricher adds is left out, and so are failing writes, which every       *)
(* command counts and passes over.  An entry of the manifest that has      *)
(* another text than its file now has is module Ingest's subject, and a    *)
(* registry that a running service has not read again Exclusion's.         *)
(***************************************************************************)
EXTENDS Naturals, Sequences

CONSTANTS Files,     \* raw paths
          Texts,     \* what can be extracted from them
          Ragged,    \* the texts that end in blank lines
          Gone,      \* in place of a text: the file is not there
          Notes,     \* what casework can put in a notes key
          NoNote,
          MaxChanges, MaxCommands  \* bounds

ASSUME DerivedAssumption ==
    /\ Ragged \subseteq Texts /\ Gone \notin Texts /\ NoNote \notin Notes
    /\ MaxChanges \in Nat /\ MaxCommands \in Nat

VARIABLES
    raw,       \* the text of each file, if it is there
    chain,     \* what its metadata chain says: [notes, closed (no_index)]
    entry,     \* what the manifest keeps of the chain, for each file and text
    documents, \* the index: a set of [id, path, body, notes]
    mirror,    \* goldberg-extracted: for some files, [path, body, notes]
    excluded,  \* the exclusion registry, in paths
    tombstoned, \* history: paths of which a tombstone has removed documents
    command,   \* the command under way: [name, todo, mirrors, known]
    was,       \* the index when that command began
    done,      \* the last command that ended without anything happening beside it
    changes, commands

derivedVars == <<raw, chain, entry, documents, mirror, excluded, tombstoned, command, was,
                 done, changes, commands>>

NoCommand == [name |-> "none"]

PathsOf(docs) == {d.path : d \in docs}

(* compute_doc_id *)
DocId(path, body) == <<path, body>>

Body(text) == [text |-> text, blanks |-> text \in Ragged, notes |-> <<>>]

(* append_annotation *)
Annotated(body, note) ==
    IF note = NoNote THEN body
    ELSE [body EXCEPT !.blanks = FALSE, !.notes = Append(@, note)]

(* build_enriched_from_raw: the id is that of the content it is given. *)
Enriched(path, body, note) ==
    [id |-> DocId(path, body), path |-> path, body |-> Annotated(body, note), notes |-> note]

(* enriched_from_es_source and to_frontmatter_document; enriched_from_frontmatter. *)
FileOf(d) == [path |-> d.path, body |-> [d.body EXCEPT !.blanks = FALSE], notes |-> d.notes]
FromFile(file) == [id |-> DocId(file.path, file.body), path |-> file.path,
                   body |-> file.body, notes |-> file.notes]

(* folder_base_fields over the stored metadata: a key that was removed from the chain
   does not clear what is stored. *)
OverlaidUnder(d) == IF d.notes # NoNote THEN d.notes ELSE chain[d.path].notes
Overlaid(d) == IF chain[d.path].notes # NoNote THEN chain[d.path].notes ELSE d.notes

(* ElasticsearchIndexer.write and ExtractedRepoWriter.write; known is the registry as
   the process loaded it, which the mirror does not consult.  An index document has no
   no_index field: what is read from the index, or from a file, is open. *)
IndexedUnlessClosed(d, known, closed) ==
    IF closed THEN documents ELSE {e \in documents : e.id # d.id} \cup {d}
Indexed(d, known, closed) ==
    IF d.path \in known \/ closed THEN documents
    ELSE {e \in documents : e.id # d.id} \cup {d}
Mirrored(d, closed) ==
    IF closed THEN mirror
    ELSE [f \in DOMAIN mirror \cup {d.path} |-> IF f = d.path THEN FileOf(d) ELSE mirror[f]]

-----------------------------------------------------------------------------
DerivedInit ==
    /\ raw \in [Files -> Texts]
    /\ chain = [f \in Files |-> [notes |-> NoNote, closed |-> FALSE]]
    /\ entry = <<>>
    /\ documents = {} /\ mirror = <<>> /\ excluded = {} /\ tombstoned = {}
    /\ command = NoCommand /\ was = {} /\ done = "none"
    /\ changes = 0 /\ commands = 0

(* A command beside which anything happens that matters to it does not run alone. *)
Disturb ==
    /\ done' = "none"
    /\ IF command = NoCommand THEN command' = command
       ELSE command' = [command EXCEPT !.alone = FALSE]
    /\ UNCHANGED <<was, commands>>

Change ==
    /\ changes < MaxChanges /\ changes' = changes + 1
    /\ Disturb

(* Casework edits a metadata file, or the file itself, deletes or restores it. *)
EditChain ==
    /\ Change
    /\ \E f \in Files, note \in Notes \cup {NoNote}, closed \in BOOLEAN :
         chain' = [chain EXCEPT ![f] = [notes |-> note, closed |-> closed]]
    /\ UNCHANGED <<raw, entry, documents, mirror, excluded, tombstoned>>

EditText ==
    /\ Change
    /\ \E f \in Files : \E t \in (Texts \cup {Gone}) \ {raw[f]} : raw' = [raw EXCEPT ![f] = t]
    /\ UNCHANGED <<chain, entry, documents, mirror, excluded, tombstoned>>

(* refresh_provenance: what the manifest holds it does not look up again. *)
Register ==
    LET new == {<<f, raw[f]>> : f \in {g \in Files : raw[g] # Gone}} \ DOMAIN entry
    IN  /\ new # {}
        /\ entry' = [k \in DOMAIN entry \cup new |-> IF k \in new THEN chain[k[1]] ELSE entry[k]]
        /\ UNCHANGED <<raw, chain, documents, mirror, excluded, tombstoned, command, was, done,
                       changes, commands>>

(* What process_one does not skip. *)
Pending(key) ==
    /\ key \in DOMAIN entry /\ ~entry[key].closed
    /\ key \notin {<<d.path, d.body.text>> : d \in documents}

(* The service ingests a registered file, into the mirror too if it has one, and whether
   or not the index has refused it. *)
IngestText(f, mirrors) ==
    LET key == <<f, raw[f]>>
        new == Enriched(f, Body(raw[f]), entry[key].notes)
    IN  /\ Pending(key)
        /\ Change
        /\ documents' = Indexed(new, excluded, FALSE)
        /\ mirror' = IF mirrors THEN Mirrored(new, FALSE) ELSE mirror
        /\ UNCHANGED <<raw, chain, entry, excluded, tombstoned>>

(* A registered text that was never indexed, and whose file is gone, takes the other
   documents of its path from the index.  The mirror has no remove_by_raw_path. *)
Tombstone(f) ==
    /\ raw[f] = Gone /\ \E t \in Texts : Pending(<<f, t>>)
    /\ f \in PathsOf(documents)
    /\ Disturb
    /\ documents' = {d \in documents : d.path # f}
    /\ tombstoned' = tombstoned \cup {f}
    /\ UNCHANGED <<raw, chain, entry, mirror, excluded, changes>>

(* exclusions add, and deindex as a whole, which is told of the mirror or not. *)
Purges == {{}, {"index"}, {"index", "mirror"}}
Exclude(f, stores) ==
    /\ f \notin excluded
    /\ Change
    /\ excluded' = excluded \cup {f}
    /\ documents' = IF "index" \in stores THEN {d \in documents : d.path # f} ELSE documents
    /\ mirror' = IF "mirror" \in stores THEN [g \in DOMAIN mirror \ {f} |-> mirror[g]] ELSE mirror
    /\ UNCHANGED <<raw, chain, entry, tombstoned>>

-----------------------------------------------------------------------------
(* A command reads all it works on first (re-enrich says why), then goes through it in
   any order. *)
Begin(name, todo, mirrors) ==
    /\ command = NoCommand
    /\ commands < MaxCommands /\ commands' = commands + 1
    /\ command' = [name |-> name, todo |-> todo, mirrors |-> mirrors,
                   known |-> excluded, alone |-> TRUE]
    /\ was' = documents
    /\ done' = "none"
    /\ UNCHANGED <<raw, chain, entry, mirror, excluded, tombstoned, changes>>

BeginReEnrich ==
    \E mirrors \in BOOLEAN : Begin("re-enrich", documents, mirrors) /\ UNCHANGED documents
BeginBackfill == Begin("backfill", documents, TRUE) /\ UNCHANGED documents
BeginReindex ==
    Begin("reindex", {mirror[f] : f \in DOMAIN mirror}, FALSE) /\ UNCHANGED documents
(* The index is dropped, when the files have just been written, and made again. *)
BeginRebuild ==
    /\ done = "backfill"
    /\ Begin("rebuild", {mirror[f] : f \in DOMAIN mirror}, FALSE)
    /\ documents' = {}

Take(d) ==
    /\ command' = [command EXCEPT !.todo = @ \ {d}]
    /\ UNCHANGED <<raw, chain, entry, excluded, tombstoned, was, done, changes, commands>>

ReEnrichOne(d) ==
    LET new == Enriched(d.path, d.body, Overlaid(d))
        closed == chain[d.path].closed
    IN  /\ command.name = "re-enrich"
        /\ documents' = Indexed(new, command.known, closed)
        /\ mirror' = IF command.mirrors THEN Mirrored(new, closed) ELSE mirror
        /\ Take(d)

BackfillOne(d) ==
    /\ command.name = "backfill"
    /\ mirror' = Mirrored(d, FALSE)
    /\ Take(d) /\ UNCHANGED documents

ReindexOne(file) ==
    /\ command.name \in {"reindex", "rebuild"}
    /\ documents' = Indexed(FromFile(file), command.known, FALSE)
    /\ Take(file) /\ UNCHANGED mirror

EndCommand ==
    /\ command.name # "none" /\ command.todo = {}
    /\ done' = IF command.alone THEN command.name ELSE "none"
    /\ command' = NoCommand
    /\ UNCHANGED <<raw, chain, entry, documents, mirror, excluded, tombstoned, was, changes,
                   commands>>

Work == /\ command.name # "none"
        /\ \E d \in command.todo : ReEnrichOne(d) \/ BackfillOne(d) \/ ReindexOne(d)

DerivedNext ==
    \/ EditChain
    \/ EditText
    \/ Register
    \/ \E f \in Files, mirrors \in BOOLEAN : IngestText(f, mirrors)
    \/ \E f \in Files : Tombstone(f)
    \/ \E f \in Files, stores \in Purges : Exclude(f, stores)
    \/ BeginReEnrich \/ BeginBackfill \/ BeginReindex \/ BeginRebuild
    \/ Work
    \/ EndCommand

DerivedSpec == DerivedInit /\ [][DerivedNext]_derivedVars

-----------------------------------------------------------------------------
(* The docstring of re-enrich: an edit of the notes takes effect without a full ingest.
   After a run beside which nothing happened, each text that was indexed has a document
   that carries the note of its chain, and ends in it; unless the note was removed, which
   the run does not see, or the file may not be indexed. *)
EditsTakeEffect ==
    done = "re-enrich" => \A d \in was :
        LET note == chain[d.path].notes
        IN  note # NoNote /\ ~chain[d.path].closed /\ d.path \notin excluded =>
              \E e \in documents :
                 /\ e.path = d.path /\ e.body.text = d.body.text
                 /\ e.notes = note /\ e.body.notes[Len(e.body.notes)] = note

(* Elasticsearch is a disposable projection of the files: the index that is made again
   from a backfill has each path it had and that is not excluded, and nothing excluded,
   though the mirror may hold it; one document of a path, with a body and notes that the
   path had, blank lines at the end excepted.  What the rebuild brings back beyond that
   are deleted files, whose tombstone has taken them from the index only. *)
RebuildRestores ==
    done = "rebuild" =>
        /\ PathsOf(was) \ excluded \subseteq PathsOf(documents)
        /\ PathsOf(documents) \subseteq (PathsOf(was) \cup tombstoned) \ excluded
        /\ \A d \in documents :
             /\ \A e \in documents : e.path = d.path => e = d
             /\ d.path \in PathsOf(was) => \E e \in was : FileOf(e) = FileOf(d)

(* pipeline.py: adding or editing a note never mints a new document; cli.py: re-enrich
   updates in place; extracted.py: the id that is recomputed from a file matches the
   one assigned at first.  So a file has one document for each text. *)
OneDocumentPerText ==
    \A d, e \in documents : d.path = e.path /\ d.body.text = e.body.text => d = e

=============================================================================
