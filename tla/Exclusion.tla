------------------------------ MODULE Exclusion ------------------------------
(***************************************************************************)
(* How documents are kept out of the index.  Casework marks a folder       *)
(* no_index in its metadata; an operator purges what is indexed already    *)
(* (deindex) and the purge is remembered in an append-only registry file;  *)
(* the sink of the running service refuses what the registry it was built  *)
(* with covers.  The operator's command is a process of its own that works *)
(* step by step beside the service.                                        *)
(*                                                                         *)
(* A file here is one version of an evidence file, the unit of the         *)
(* manifest.  The index and the extracted mirror are what the service's two*)
(* sinks write.  Failing conversions and retries are in module Ingest.     *)
(***************************************************************************)
EXTENDS FiniteSets

CONSTANTS Files,     \* versions of evidence files
          Paths,
          PathOf,    \* PathOf[f]: the raw_path of f
          Prefixes,  \* what operators purge: the prefixes given in one command
          Covers     \* Covers[x]: the paths that start with one of those of x

ASSUME ExclusionAssumption ==
    /\ PathOf \in [Files -> Paths]
    /\ Covers \in [Prefixes -> SUBSET Paths]

VARIABLES
    marked,    \* marked[f]: the metadata chain of f resolves to no_index now
    entry,     \* entry[f]: f's manifest entry: "none", "open" or "restricted"
    index,     \* the files with a document in the search index
    mirror,    \* the paths with a file in the extracted mirror
    registry,  \* the prefixes in the registry file
    held,      \* the registry as the service's sink loaded it
    pass,      \* the catch-up pass: "off", "loaded" or "selected"
    seen,      \* the registry as that pass loaded it
    jobs,      \* files on their way to the sinks
    purge,     \* the operator's deindex command: next step and prefix
    alerts,    \* what the sink refused and reported
    sealed,    \* history: files purged under a registration the sink knew
    purged     \* history: files of completed deindex commands

vars == <<marked, entry, index, mirror, registry, held, pass, seen, jobs, purge,
          alerts, sealed, purged>>

metadata == <<marked, entry>>
sinks == <<index, mirror>>
service == <<held, pass, seen, jobs>>
history == <<sealed, purged>>

Origin == {"commit", "catchup"}
Job == [by : Origin, file : Files, at : {"index", "mirror"}]
NoPurge == [at |-> "off"]
Purge == [at : {"index", "mirror", "registry"}, prefix : Prefixes] \cup {NoPurge}

TypeOK ==
    /\ marked \in [Files -> BOOLEAN]
    /\ entry \in [Files -> {"none", "open", "restricted"}]
    /\ index \subseteq Files
    /\ mirror \subseteq Paths
    /\ registry \subseteq Prefixes
    /\ held \subseteq Prefixes
    /\ pass \in {"off", "loaded", "selected"}
    /\ seen \subseteq Prefixes
    /\ jobs \subseteq Job
    /\ purge \in Purge
    /\ alerts \subseteq Origin \X Files
    /\ sealed \subseteq Files
    /\ purged \subseteq Files

Init ==
    /\ marked \in [Files -> BOOLEAN]
    /\ entry = [f \in Files |-> "none"]
    /\ index = {} /\ mirror = {}
    /\ registry = {} /\ held = {}
    /\ pass = "off" /\ seen = {}
    /\ jobs = {}
    /\ purge = NoPurge
    /\ alerts = {}
    /\ sealed = {} /\ purged = {}

-----------------------------------------------------------------------------
(* Casework *)

(* A no_index key is added to a layer of f's chain, or taken away. *)
Mark(f) ==
    /\ marked' = [marked EXCEPT ![f] = ~@]
    /\ UNCHANGED <<entry, sinks, registry, service, purge, alerts, history>>

-----------------------------------------------------------------------------
(* The service *)

(* refresh_provenance resolves the chain when it meets a version first, and
   never looks at a version it knows again. *)
Register(f) ==
    /\ entry[f] = "none"
    /\ entry' = [entry EXCEPT ![f] = IF marked[f] THEN "restricted" ELSE "open"]
    /\ UNCHANGED <<marked, sinks, registry, service, purge, alerts, history>>

Excluded(reg, f) == \E x \in reg : PathOf[f] \in Covers[x]

(* What process_one does not skip. *)
WantedUnlessIndexed(f) == entry[f] # "none" /\ f \notin index
Wanted(f) == entry[f] = "open" /\ f \notin index

NewJobs(origin, F) == {[by |-> origin, file |-> f, at |-> "index"] : f \in F}

(* process_commit hands a changed file to process_one; it has no registry. *)
CommitSelect(f) ==
    /\ Wanted(f)
    /\ jobs' = jobs \cup NewJobs("commit", {f})
    /\ UNCHANGED <<metadata, sinks, registry, held, pass, seen, purge, alerts, history>>

(* run_catchup loads the registry file, registers what is new and selects. *)
BeginPass ==
    /\ pass = "off"
    /\ pass' = "loaded" /\ seen' = registry
    /\ UNCHANGED <<metadata, sinks, registry, held, jobs, purge, alerts, history>>

(* Versions of one path are excluded together, so the paths run_catchup hands
   on select no other version. *)
SelectedWithoutRegistry == {f \in Files : Wanted(f)}
Selected == {f \in Files : Wanted(f) /\ ~Excluded(seen, f)}

SelectPass ==
    /\ pass = "loaded"
    /\ pass' = "selected"
    /\ jobs' = jobs \cup NewJobs("catchup", Selected)
    /\ UNCHANGED <<metadata, sinks, registry, held, seen, purge, alerts, history>>

EndPass ==
    /\ pass = "selected" /\ \A j \in jobs : j.by # "catchup"
    /\ pass' = "off" /\ seen' = {}
    /\ UNCHANGED <<metadata, sinks, registry, held, jobs, purge, alerts, history>>

RefusesAtFirst(j) == j.by = "catchup" /\ Excluded(held, j.file)
Refuses(j) == Excluded(held, j.file)

(* The Elasticsearch sink.  A document in hand has an open entry, so of its
   two guards only the registry can refuse it; a refusal is reported. *)
WriteIndex(j) ==
    /\ j.at = "index"
    /\ IF Refuses(j)
       THEN alerts' = alerts \cup {<<j.by, j.file>>} /\ UNCHANGED index
       ELSE index' = index \cup {j.file} /\ UNCHANGED alerts
    /\ jobs' = (jobs \ {j}) \cup {[j EXCEPT !.at = "mirror"]}
    /\ UNCHANGED <<metadata, mirror, registry, held, pass, seen, purge, history>>

MirrorFilePerVersion(f) == f
MirrorFile(f) == PathOf[f]

(* The mirror is written whatever the first sink answered. *)
WriteMirror(j) ==
    /\ j.at = "mirror"
    /\ mirror' = mirror \cup {MirrorFile(j.file)}
    /\ jobs' = jobs \ {j}
    /\ UNCHANGED <<metadata, index, registry, held, pass, seen, purge, alerts, history>>

(* Stopped at any moment and started again: the sink is built with the
   registry file as it is then. *)
Restart ==
    /\ held' = registry
    /\ pass' = "off" /\ seen' = {} /\ jobs' = {}
    /\ UNCHANGED <<metadata, sinks, registry, purge, alerts, history>>

-----------------------------------------------------------------------------
(* The operator *)

Under(x) == {f \in Files : PathOf[f] \in Covers[x]}

(* append_exclusion *)
Overwritten(x) == {x}
Appended(x) == registry \cup {x}

(* legal_system exclusions add *)
AddExclusion(x) ==
    /\ registry' = Appended(x)
    /\ UNCHANGED <<metadata, sinks, service, purge, alerts, history>>

(* legal_system deindex: the index, then the mirror, then the registry. *)
BeginDeindex(x) ==
    /\ purge = NoPurge
    /\ purge' = [at |-> "index", prefix |-> x]
    /\ UNCHANGED <<metadata, sinks, registry, service, alerts, history>>

DeleteDocuments ==
    /\ purge.at = "index"
    /\ index' = index \ Under(purge.prefix)
    /\ purge' = [purge EXCEPT !.at = "mirror"]
    /\ sealed' = sealed \cup {f \in Under(purge.prefix) : Excluded(held, f)}
    /\ UNCHANGED <<metadata, mirror, registry, service, alerts, purged>>

UnlinkMirror ==
    /\ purge.at = "mirror"
    /\ mirror' = mirror \ Covers[purge.prefix]
    /\ purge' = [purge EXCEPT !.at = "registry"]
    /\ UNCHANGED <<metadata, index, registry, service, alerts, history>>

RecordPurge ==
    /\ purge.at = "registry"
    /\ registry' = Appended(purge.prefix)
    /\ purge' = NoPurge
    /\ purged' = purged \cup (Under(purge.prefix) \ index)
    /\ UNCHANGED <<metadata, sinks, service, alerts, sealed>>

(* Elasticsearch or the file system raises, or the operator interrupts it: the
   step is done in part, and there is no next one. *)
AbortDeindex ==
    /\ purge # NoPurge
    /\ \/ /\ purge.at = "index"
          /\ \E F \in SUBSET Under(purge.prefix) : index' = index \ F
          /\ UNCHANGED mirror
       \/ /\ purge.at = "mirror"
          /\ \E P \in SUBSET Covers[purge.prefix] : mirror' = mirror \ P
          /\ UNCHANGED index
       \/ purge.at = "registry" /\ UNCHANGED sinks
    /\ purge' = NoPurge
    /\ UNCHANGED <<metadata, registry, service, alerts, history>>

-----------------------------------------------------------------------------
(* legal_system exclusions verify: the exclusions in the index now. *)
Exposed == {f \in index : Excluded(registry, f)}

Casework == \E f \in Files : Mark(f)

Service ==
    \/ \E f \in Files : Register(f) \/ CommitSelect(f)
    \/ BeginPass \/ SelectPass \/ EndPass
    \/ \E j \in jobs : WriteIndex(j) \/ WriteMirror(j)
    \/ Restart

Operator ==
    \/ \E x \in Prefixes : AddExclusion(x) \/ BeginDeindex(x)
    \/ DeleteDocuments \/ UnlinkMirror \/ RecordPurge \/ AbortDeindex

Next == Casework \/ Service \/ Operator

Spec == Init /\ [][Next]_vars

-----------------------------------------------------------------------------
(* Properties *)

(* A document purged while the running service knew of its exclusion stays out
   of the index for good: through later passes and commits, items that were
   under way when it was purged, restarts and aborted commands.  So "register,
   restart, then deindex" is an order that works. *)
SealedStaysOut == sealed \cap index = {}

(* The sink never has to refuse what catch-up selected, so that a routine pass
   over an excluded file raises no alarm: the pass reads the registry after
   the sink did, and the registry only grows.  Alarms come from commits. *)
NoCryWolf == \A a \in alerts : a[1] = "commit"

(* What was registered under a no_index chain is not indexed, nor on its way
   to a sink, also when the key has been taken away since. *)
RestrictedStaysOut ==
    \A f \in Files : entry[f] = "restricted"
        => f \notin index /\ \A j \in jobs : j.file # f

(* What was purged and is in the index again does not go unnoticed: the live
   exposure query finds it, whoever put it there and whatever was purged or
   registered since. *)
ReturnsAreExposed == purged \cap index \subseteq Exposed

(* exclusion_registry.py: deliberately purged documents must never be re-added
   by an automated process. *)
PurgedStaysOut == purged \cap index = {}

(* exclusion_registry.py: marking a folder no_index stops future ingestion.
   So no file is taken in hand while it is marked. *)
MarkStopsIngestion == [][\A j \in jobs' : j.at = "index" /\ j \notin jobs
                            => ~marked[j.file]]_vars
=============================================================================
