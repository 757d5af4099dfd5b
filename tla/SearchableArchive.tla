------------------------- MODULE SearchableArchive -------------------------
(***************************************************************************)
(* What the ingest service promises about the archive, whatever its        *)
(* threads, its manifest and its retries do: a commit is tried a bounded   *)
(* number of times and answered once; it is acked only when each file it   *)
(* brought that was never changed, moved or deleted is searchable; a       *)
(* document shows a text its path once had; and documents disappear, all   *)
(* those of a path at a time, only where a file was deleted.               *)
(* Ingest implements this specification.                                   *)
(***************************************************************************)
EXTENDS Naturals, Sequences

CONSTANTS Paths, Contents,
          Empty,     \* contents without any text
          MaxTries

VARIABLES log,      \* log[i]: what commit i put at the paths it added or changed
          gone,     \* the paths deleted so far
          verdict,  \* verdict[i]: "queued", "acked" or "dead"
          tries,    \* tries[i]: attempts made at commit i
          docs      \* the searchable documents, as <<path, text>>

archive == <<log, gone, verdict, tries, docs>>

ArchiveInit ==
    /\ log = <<>> /\ verdict = <<>> /\ tries = <<>>
    /\ gone = {} /\ docs = {}

Commits == UNION {[P -> Contents] : P \in SUBSET Paths}

(* A commit has put text c at path p. *)
Put(p, c) == \E i \in DOMAIN log : p \in DOMAIN log[i] /\ log[i][p] = c

(* c is the only content that was ever at p, and p the only path of c. *)
Undisturbed(p, c) ==
    /\ p \notin gone
    /\ \A i \in DOMAIN log : \A q \in DOMAIN log[i] : q = p <=> log[i][q] = c

(* A commit adds or changes some files and deletes others. *)
Publish ==
    /\ verdict' = Append(verdict, "queued")
    /\ tries' = Append(tries, 0)
    /\ \E put \in Commits : log' = Append(log, put)
    /\ \E lost \in SUBSET {p \in Paths : \E c \in Contents : Put(p, c)} :
         gone' = gone \cup lost
    /\ UNCHANGED docs

Attempt(i) ==
    /\ verdict[i] = "queued" /\ tries[i] < MaxTries
    /\ tries' = [tries EXCEPT ![i] = @ + 1]
    /\ UNCHANGED <<log, gone, verdict, docs>>

Ack(i) ==
    /\ verdict[i] = "queued" /\ tries[i] > 0
    /\ \A p \in DOMAIN log[i] :
         log[i][p] \notin Empty /\ Undisturbed(p, log[i][p]) => <<p, log[i][p]>> \in docs
    /\ verdict' = [verdict EXCEPT ![i] = "acked"]
    /\ UNCHANGED <<log, gone, tries, docs>>

GiveUp(i) ==
    /\ verdict[i] = "queued" /\ tries[i] = MaxTries
    /\ verdict' = [verdict EXCEPT ![i] = "dead"]
    /\ UNCHANGED <<log, gone, tries, docs>>

Index(p, c) ==
    /\ c \notin Empty /\ Put(p, c)
    /\ docs' = docs \cup {<<p, c>>}
    /\ UNCHANGED <<log, gone, verdict, tries>>

Expunge(p) ==
    /\ p \in gone
    /\ docs' = {d \in docs : d[1] # p}
    /\ UNCHANGED <<log, gone, verdict, tries>>

ArchiveNext ==
    \/ Publish
    \/ \E i \in DOMAIN log : Attempt(i) \/ Ack(i) \/ GiveUp(i)
    \/ \E p \in Paths : Expunge(p) \/ \E c \in Contents : Index(p, c)

ArchiveSpec == ArchiveInit /\ [][ArchiveNext]_archive
=============================================================================
