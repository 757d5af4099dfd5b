---------------------------- MODULE IngestProofs ----------------------------
(***************************************************************************)
(* Proofs about Ingest: what is acked is searchable and no document        *)
(* vanishes, for any files, contents, commits, deliveries and failures,    *)
(* with both threads or with one; with the commit thread alone, that the   *)
(* manifest is append-only, vouches for every document, and no commit is   *)
(* given up without cause; and that all of it implements the abstract      *)
(* archive of module SearchableArchive.                                    *)
(***************************************************************************)
(* The argument: the log of commits tells whatever was at a path (Was), no *)
(* manifest, text or stamp says anything else, and whoever is Settled was  *)
(* there alone; so a skipped, a written and an empty outcome each leave    *)
(* nothing to wait for at its path, now or later.                          *)
(***************************************************************************)
EXTENDS Ingest, LeastNatural, SequenceTheorems

Changes == UNION {[P -> Contents] : P \in SUBSET Paths}
Verdicts == {"queued", "acked", "dead"}
Steps == {"none", "skip", "todo", "gone", "converted", "done"}
Places == {"off", "idle", "walk", "write", "replace", "load", "reingest", "dead"}

(* The type of each group of variables. *)
QueueTyped ==
    /\ log \in Seq(Changes)
    /\ verdict \in Seq(Verdicts) /\ Len(verdict) = Len(log)
    /\ tries \in Seq(0..MaxDeliver) /\ Len(tries) = Len(log)
TreeTyped == raw \in [Paths -> Contents \cup {None}] /\ gone \subseteq Paths
StoreTyped ==
    /\ manifest \in Manifests \cup {Torn}
    /\ tmp \in Manifests \cup {Torn, None}
    /\ handle \in [Threads -> {"closed", "tmp", "manifest", "gone"}]
    /\ registered \subseteq Contents
IndexTyped == index \in [Docs -> Contents \cup {None}]
ThreadsTyped ==
    /\ pc \in [Threads -> Places]
    /\ job \in 0..Len(log)
    /\ known \in [Threads -> Manifests]
    /\ item \in [Threads -> [Contents -> Steps]]
    /\ text \in [Threads -> [Contents -> Contents \cup {None}]]
    /\ statuses \in [Paths -> {"none", "ok", "failed"}]
FailuresTyped == failures \in 0..MaxFailures

(* A commit has put content c at path p. *)
Was(p, c) == \E i \in DOMAIN log : p \in DOMAIN log[i] /\ log[i][p] = c

(* What was acked for p, if p ever held c only and c was at p only. *)
Secured(p, c) == Settled(p, c) => HasDocument(p, c)

(* The log tells the tree: what is there was put there, and what is not there any more
   was deleted. *)
HistoryKept ==
    /\ \A p \in Paths, c \in Contents : raw[p] = c => Was(p, c)
    /\ \A p \in Paths, c \in Contents : Was(p, c) /\ raw[p] = None => p \in gone

(* No manifest, on disk or in hand, registers what was not there. *)
Provenance(m) == \A c \in Contents, p \in Paths : m[c] = p => Was(p, c)
ManifestsTrue ==
    /\ manifest # Torn => Provenance(manifest)
    /\ tmp \notin {Torn, None} => Provenance(tmp)
    /\ \A r \in Threads : Provenance(known[r])

(* A document's text and stamp were at its path. *)
DocumentsTrue ==
    \A p \in Paths, t, c \in Contents : index[<<p, t>>] = c => Was(p, t) /\ Was(p, c)

(* How far an item is says something of the tree and the index, now as well as when
   that was looked up. *)
ItemTrue(step, p, t, c) ==
    /\ step = "skip" => Secured(p, c)
    /\ step = "gone" => p \in gone
    /\ step = "converted" => Was(p, t)
ItemsTrue ==
    \A r \in Threads, c \in Contents :
        /\ item[r][c] # "none" => pc[r] = "reingest" /\ known[r][c] # None
        /\ item[r][c] = "converted" => text[r][c] # None
        /\ \A p \in Paths, t \in Contents \cup {None}, step \in Steps :
             item[r][c] = step /\ known[r][c] = p /\ text[r][c] = t => ItemTrue(step, p, t, c)

(* So does a status that will count for the answer. *)
Brought(i, p, c) == p \in DOMAIN log[i] /\ log[i][p] = c
StatusesTrue ==
    \A p \in Paths :
        statuses[p] = "ok" =>
            /\ pc["commit"] = "reingest"
            /\ \A c \in Contents \ Empty : Brought(job, p, c) => Secured(p, c)

JobHeld == pc["commit"] \in {"walk", "write", "replace", "load", "reingest"} => job # 0

AcksTrue ==
    \A i \in DOMAIN log :
        verdict[i] = "acked" =>
            \A p \in Paths, c \in Contents \ Empty : Brought(i, p, c) => Secured(p, c)

IngestInv ==
    /\ QueueTyped /\ TreeTyped /\ StoreTyped /\ IndexTyped /\ ThreadsTyped /\ FailuresTyped
    /\ HistoryKept /\ ManifestsTrue /\ DocumentsTrue
    /\ ItemsTrue /\ StatusesTrue /\ JobHeld /\ AcksTrue

-----------------------------------------------------------------------------
LEMMA NoneOutside == None \notin Paths /\ None \notin Contents /\ Torn \notin Contents /\ None # Torn
  BY IngestAssumption

LEMMA ManifestsParse == \A m \in Manifests : m # Torn /\ m # None
  BY IngestAssumption DEF Manifests

LEMMA ChangesTyped ==
  \A change \in Changes : DOMAIN change \subseteq Paths /\ \A p \in DOMAIN change : change[p] \in Contents
  BY DEF Changes

LEMMA QueueRead ==
  ASSUME QueueTyped
  PROVE  /\ Len(log) \in Nat /\ DOMAIN log = 1..Len(log)
         /\ DOMAIN verdict = 1..Len(log) /\ DOMAIN tries = 1..Len(log)
         /\ \A i \in 1..Len(log) : /\ verdict[i] \in Verdicts /\ tries[i] \in 0..MaxDeliver
                                   /\ DOMAIN log[i] \subseteq Paths
                                   /\ \A p \in DOMAIN log[i] : log[i][p] \in Contents
  <1>1. Len(log) \in Nat /\ DOMAIN log = 1..Len(log)
    BY LenProperties DEF QueueTyped
  <1>2. DOMAIN verdict = 1..Len(log) /\ DOMAIN tries = 1..Len(log)
    BY LenProperties DEF QueueTyped
  <1>3. \A i \in 1..Len(log) : log[i] \in Changes /\ verdict[i] \in Verdicts /\ tries[i] \in 0..MaxDeliver
    BY ElementOfSeq DEF QueueTyped
  <1> QED BY <1>1, <1>2, <1>3, ChangesTyped

LEMMA WasTyped ==
  ASSUME QueueTyped, NEW p, NEW c, Was(p, c) PROVE p \in Paths /\ c \in Contents
  BY QueueRead DEF Was

LEMMA OnDiskTyped ==
  ASSUME StoreTyped, ManifestsTrue PROVE OnDisk \in Manifests /\ Provenance(OnDisk)
  <1>1. CASE manifest = Torn
    BY <1>1, NoneOutside DEF OnDisk, NoManifest, Manifests, Provenance
  <1>2. CASE manifest # Torn
    BY <1>2 DEF StoreTyped, ManifestsTrue, OnDisk
  <1> QED BY <1>1, <1>2

(* Once a path of two contents, or a content of two paths, always: and with nothing else
   to settle, a stamp is found under its own text. *)
LEMMA SettledAlone ==
  ASSUME NEW p, NEW c, Settled(p, c)
  PROVE  /\ \A d : Was(p, d) => d = c
         /\ \A q : Was(q, c) => q = p
         /\ p \notin gone
  BY DEF Settled, Was

LEMMA IndexedSecured ==
  ASSUME IndexTyped, DocumentsTrue, NEW c \in Indexed, NEW p
  PROVE  Secured(p, c)
  <1> SUFFICES ASSUME Settled(p, c) PROVE HasDocument(p, c)
    BY DEF Secured
  <1>1. PICK d \in Docs : index[d] = c /\ c # None /\ c \in Contents
    BY DEF Indexed, IndexTyped
  <1>2. PICK q \in Paths, t \in Contents : d = <<q, t>>
    BY DEF Docs
  <1>3. Was(q, t) /\ Was(q, c)
    BY <1>1, <1>2 DEF DocumentsTrue
  <1>4. q = p /\ t = c
    BY <1>3, SettledAlone
  <1> QED BY <1>1, <1>2, <1>4 DEF HasDocument

-----------------------------------------------------------------------------
(* What no step takes back: the log is only appended to, what was deleted stays so, and
   a document vanishes only from a path that was. *)
Kept ==
    /\ DOMAIN log \subseteq DOMAIN log' /\ \A i \in DOMAIN log : log'[i] = log[i]
    /\ gone \subseteq gone'
    /\ \A p \in Paths, c \in Contents :
         index[<<p, c>>] # None /\ index'[<<p, c>>] = None => p \in gone'

LEMMA StillWas ==
  ASSUME Kept, NEW p, NEW c, Was(p, c) PROVE Was(p, c)'
  BY DEF Kept, Was

LEMMA StillSecured ==
  ASSUME Kept, NEW p \in Paths, NEW c \in Contents, Secured(p, c) PROVE Secured(p, c)'
  <1> SUFFICES ASSUME Settled(p, c)' PROVE HasDocument(p, c)'
    BY DEF Secured
  <1>1. Settled(p, c)
    BY DEF Settled, Kept
  <1>2. p \notin gone'
    BY DEF Settled
  <1>3. index[<<p, c>>] # None
    BY <1>1 DEF Secured, HasDocument
  <1> QED BY <1>2, <1>3 DEF Kept, HasDocument

LEMMA StillProvenance ==
  ASSUME Kept, NEW m, Provenance(m)
  PROVE  \A c \in Contents, p \in Paths : m[c] = p => Was(p, c)'
  BY StillWas DEF Provenance

LEMMA StillItem ==
  ASSUME Kept, NEW step, NEW p \in Paths, NEW t, NEW c \in Contents, ItemTrue(step, p, t, c)
  PROVE  ItemTrue(step, p, t, c)'
  BY StillWas, StillSecured DEF ItemTrue, Kept

(* The index as it was, or with one document more, is kept. *)
LEMMA KeptWhenUnchanged ==
  UNCHANGED <<log, gone, index>> => Kept
  BY DEF Kept

-----------------------------------------------------------------------------
(* What a step leaves as it is, part by part. *)
LEMMA TreeFrame ==
  ASSUME TreeTyped, HistoryKept, UNCHANGED repo PROVE TreeTyped' /\ HistoryKept'
  BY DEF repo, TreeTyped, HistoryKept, Was

LEMMA StoreFrame ==
  ASSUME StoreTyped, ManifestsTrue, UNCHANGED <<log, store>>,
         \A r \in Threads : Provenance(known'[r])
  PROVE  StoreTyped' /\ ManifestsTrue'
  BY DEF store, StoreTyped, ManifestsTrue, Provenance, Was

LEMMA IndexFrame ==
  ASSUME IndexTyped, DocumentsTrue, UNCHANGED <<log, index>> PROVE IndexTyped' /\ DocumentsTrue'
  BY DEF IndexTyped, DocumentsTrue, Was

LEMMA QueueFrame ==
  ASSUME QueueTyped, AcksTrue, Kept, UNCHANGED <<log, verdict, tries>>
  PROVE  QueueTyped' /\ AcksTrue'
  <1>1. QueueTyped'
    BY DEF QueueTyped
  <1>2. \A p \in Paths, c \in Contents \ Empty : Secured(p, c) => Secured(p, c)'
    BY StillSecured
  <1> QED BY <1>1, <1>2 DEF AcksTrue, Brought

LEMMA ThreadsFrame ==
  ASSUME QueueTyped, ThreadsTyped, ItemsTrue, StatusesTrue, JobHeld, Kept, UNCHANGED thread,
         UNCHANGED pc, Len(log') \in Nat, Len(log) <= Len(log')
  PROVE  ThreadsTyped' /\ ItemsTrue' /\ StatusesTrue' /\ JobHeld'
  <1>1. ThreadsTyped'
    BY QueueRead DEF thread, ThreadsTyped
  <1>2. ItemsTrue'
    <2>1. \A p \in Paths, t \in Contents \cup {None}, step \in Steps, c \in Contents :
            ItemTrue(step, p, t, c) => ItemTrue(step, p, t, c)'
      BY StillItem
    <2> QED BY <2>1 DEF thread, ItemsTrue
  <1>3. StatusesTrue'
    <2>1. \A p \in Paths, c \in Contents \ Empty : Secured(p, c) => Secured(p, c)'
      BY StillSecured
    <2>2. pc["commit"] = "reingest" => log'[job] = log[job]
      BY QueueRead DEF JobHeld, ThreadsTyped, Kept
    <2> QED BY <2>1, <2>2 DEF thread, StatusesTrue, Brought
  <1>4. JobHeld'
    BY DEF thread, JobHeld
  <1> QED BY <1>1, <1>2, <1>3, <1>4

-----------------------------------------------------------------------------
(* What a step that works with the index or the threads does. *)

(* Once a document of p with a text that was at p is there, it is the one that anything
   settled at p waits for. *)
LEMMA OneOutcome ==
  ASSUME NEW p, NEW d, Was(p, d), UNCHANGED <<log, gone>>, HasDocument(p, d)'
  PROVE  \A c : Secured(p, c)'
  <1> SUFFICES ASSUME NEW c, Settled(p, c)' PROVE HasDocument(p, c)'
    BY DEF Secured
  <1>1. Settled(p, c)
    BY DEF Settled
  <1>2. d = c
    BY <1>1, SettledAlone
  <1> QED BY <1>2 DEF HasDocument

LEMMA ResetStep ==
  ASSUME QueueTyped, ThreadsTyped, ManifestsTrue, ItemsTrue, StatusesTrue, JobHeld, Kept,
         UNCHANGED log, NEW r \in Threads, Reset(r),
         NEW s \in {"idle", "dead"}, pc' = [pc EXCEPT ![r] = s]
  PROVE  /\ ThreadsTyped' /\ ItemsTrue' /\ StatusesTrue' /\ JobHeld'
         /\ \A q \in Threads : Provenance(known'[q])
  <1>1. ThreadsTyped'
    BY QueueRead DEF ThreadsTyped, Reset, Manifests, NoManifest, NoItems, NoTexts, NoStatuses,
                     Places, Steps
  <1>2. \A q \in Threads : Provenance(known'[q])
    <2>1. Provenance(NoManifest)
      BY NoneOutside DEF Provenance, NoManifest
    <2> QED BY <2>1 DEF ManifestsTrue, Reset, ThreadsTyped
  <1>3. ItemsTrue'
    <2>1. \A p \in Paths, t \in Contents \cup {None}, step \in Steps, c \in Contents :
            ItemTrue(step, p, t, c) => ItemTrue(step, p, t, c)'
      BY StillItem
    <2>2. SUFFICES ASSUME NEW q \in Threads, NEW c \in Contents
          PROVE /\ item'[q][c] # "none" => pc'[q] = "reingest" /\ known'[q][c] # None
                /\ item'[q][c] = "converted" => text'[q][c] # None
                /\ \A p \in Paths, t \in Contents \cup {None}, step \in Steps :
                     item'[q][c] = step /\ known'[q][c] = p /\ text'[q][c] = t
                       => ItemTrue(step, p, t, c)'
      BY DEF ItemsTrue
    <2>3. CASE q = r
      <3>1. item'[q][c] = "none"
        BY <2>3 DEF Reset, ThreadsTyped, NoItems
      <3> QED BY <3>1 DEF ItemTrue
    <2>4. CASE q # r
      <3>1. UNCHANGED <<item[q], known[q], text[q], pc[q]>>
        BY <2>4 DEF Reset, ThreadsTyped
      <3> QED BY <3>1, <2>1 DEF ItemsTrue
    <2> QED BY <2>3, <2>4
  <1>4. StatusesTrue'
    <2>1. \A p \in Paths, c \in Contents \ Empty : Secured(p, c) => Secured(p, c)'
      BY StillSecured
    <2>2. CASE r = "commit"
      BY <2>2 DEF Reset, NoStatuses, StatusesTrue
    <2>3. CASE r # "commit"
      <3>1. UNCHANGED <<statuses, job, pc["commit"]>>
        BY <2>3 DEF Reset, ThreadsTyped, Threads
      <3> QED BY <3>1, <2>1 DEF StatusesTrue, Brought
    <2> QED BY <2>2, <2>3
  <1>5. JobHeld'
    BY DEF Reset, JobHeld, ThreadsTyped, Threads
  <1> QED BY <1>1, <1>2, <1>3, <1>4, <1>5

(* The end of an item with a status that says the truth. *)
LEMMA RecordStep ==
  ASSUME QueueTyped, ThreadsTyped, ManifestsTrue, ItemsTrue, StatusesTrue, JobHeld, Kept,
         UNCHANGED <<log, pc, job, known>>, NEW r \in Threads, NEW c \in Contents,
         pc[r] = "reingest", item[r][c] # "none",
         NEW status \in {"ok", "failed"}, Record(r, c, status),
         \/ UNCHANGED text \/ text' = [text EXCEPT ![r][c] = None],
         NEW p \in Paths, known[r][c] = p,
         status = "ok" => \A d \in Contents \ Empty : Secured(p, d)'
  PROVE  ThreadsTyped' /\ ItemsTrue' /\ StatusesTrue' /\ JobHeld'
  <1>1. item' \in [Threads -> [Contents -> Steps]]
    BY DEF ThreadsTyped, Record, Steps
  <1>2. statuses' \in [Paths -> {"none", "ok", "failed"}]
    BY DEF ThreadsTyped, Record
  <1>3. text' \in [Threads -> [Contents -> Contents \cup {None}]]
    <2>1. text \in [Threads -> [Contents -> Contents \cup {None}]]
      BY DEF ThreadsTyped
    <2>2. [text[r] EXCEPT ![c] = None] \in [Contents -> Contents \cup {None}]
      BY <2>1
    <2>3. [text EXCEPT ![r][c] = None] \in [Threads -> [Contents -> Contents \cup {None}]]
      BY <2>1, <2>2
    <2>4. CASE UNCHANGED text
      BY <2>1, <2>4
    <2>5. CASE text' = [text EXCEPT ![r][c] = None]
      BY <2>3, <2>5
    <2> QED BY <2>4, <2>5
  <1>4. ThreadsTyped'
    BY <1>1, <1>2, <1>3 DEF ThreadsTyped
  <1>5. ItemsTrue'
    <2>1. \A q \in Paths, t \in Contents \cup {None}, step \in Steps, e \in Contents :
            ItemTrue(step, q, t, e) => ItemTrue(step, q, t, e)'
      BY StillItem
    <2>2. SUFFICES ASSUME NEW q \in Threads, NEW e \in Contents
          PROVE /\ item'[q][e] # "none" => pc'[q] = "reingest" /\ known'[q][e] # None
                /\ item'[q][e] = "converted" => text'[q][e] # None
                /\ \A o \in Paths, t \in Contents \cup {None}, step \in Steps :
                     item'[q][e] = step /\ known'[q][e] = o /\ text'[q][e] = t
                       => ItemTrue(step, o, t, e)'
      BY DEF ItemsTrue
    <2>3. CASE q = r /\ e = c
      <3>1. item'[q][e] = "done"
        BY <2>3 DEF Record, ThreadsTyped
      <3>2. known[r][c] # None
        BY DEF ItemsTrue
      <3> QED BY <3>1, <3>2, <2>3 DEF ItemTrue
    <2>4. CASE ~(q = r /\ e = c)
      <3>1. UNCHANGED <<item[q][e], text[q][e]>>
        BY <2>4 DEF Record, ThreadsTyped
      <3> QED BY <3>1, <2>1 DEF ItemsTrue
    <2> QED BY <2>3, <2>4
  <1>6. StatusesTrue'
    <2>1. \A q \in Paths, d \in Contents \ Empty : Secured(q, d) => Secured(q, d)'
      BY StillSecured
    <2>2. SUFFICES ASSUME NEW q \in Paths, statuses'[q] = "ok"
          PROVE /\ pc'["commit"] = "reingest"
                /\ \A d \in Contents \ Empty : Brought(job, q, d)' => Secured(q, d)'
      BY DEF StatusesTrue
    <2>3. CASE r = "commit" /\ q = p
      <3>1. status = "ok"
        BY <2>2, <2>3 DEF Record, ThreadsTyped
      <3> QED BY <3>1, <2>3
    <2>4. CASE ~(r = "commit" /\ q = p)
      <3>1. statuses[q] = "ok"
        BY <2>2, <2>4 DEF Record, ThreadsTyped
      <3> QED BY <3>1, <2>1 DEF StatusesTrue, Brought
    <2> QED BY <2>3, <2>4
  <1>7. JobHeld'
    BY DEF JobHeld
  <1> QED BY <1>4, <1>5, <1>6, <1>7

-----------------------------------------------------------------------------
(* One lemma for each action. *)

LEMMA GitCommitStep ==
  ASSUME IngestInv, GitCommit PROVE IngestInv'
  <1>1. PICK tree \in [Paths -> Contents \cup {None}] :
          /\ raw' = tree
          /\ LET changed == {p \in Paths : tree[p] # raw[p] /\ tree[p] # None}
             IN  log' = Append(log, [p \in changed |-> tree[p]])
          /\ gone' = gone \cup {p \in Paths : raw[p] # None /\ tree[p] = None}
    BY DEF GitCommit
  <1> DEFINE changed == {p \in Paths : tree[p] # raw[p] /\ tree[p] # None}
             change == [p \in changed |-> tree[p]]
             N == Len(log)
  <1>2. change \in Changes
    <2>1. change \in [changed -> Contents]
      <3>1. \A p \in changed : tree[p] \in Contents
        OBVIOUS
      <3> HIDE DEF changed
      <3> QED BY <3>1
    <2>2. changed \in SUBSET Paths
      OBVIOUS
    <2> HIDE DEF changed, change
    <2> QED BY <2>1, <2>2 DEF Changes
  <1>3. log' = Append(log, change) /\ log \in Seq(Changes)
    BY <1>1 DEF IngestInv, QueueTyped
  <1>4. /\ log' \in Seq(Changes) /\ Len(log') = N + 1 /\ DOMAIN log' = 1..(N + 1)
        /\ log'[N + 1] = change /\ \A i \in 1..N : log'[i] = log[i]
    <2> HIDE DEF change
    <2>1. N \in Nat
      BY <1>3, LenProperties
    <2> QED BY <1>2, <1>3, <2>1, AppendProperties, LenProperties
  <1>5. N \in Nat /\ DOMAIN log = 1..N
    BY QueueRead DEF IngestInv
  <1> HIDE DEF N
  <1>6. Kept
    BY <1>1, <1>4, <1>5 DEF Kept, GitCommit
  <1>7. QueueTyped'
    <2>1. verdict' \in Seq(Verdicts) /\ Len(verdict') = N + 1
      BY AppendProperties DEF GitCommit, IngestInv, QueueTyped, Verdicts, N
    <2>2. tries' \in Seq(0..MaxDeliver) /\ Len(tries') = N + 1
      BY AppendProperties, IngestAssumption DEF GitCommit, IngestInv, QueueTyped, N
    <2> QED BY <2>1, <2>2, <1>4 DEF QueueTyped
  <1>8. TreeTyped'
    BY <1>1 DEF IngestInv, TreeTyped
  <1>9. HistoryKept'
    <2>1. ASSUME NEW p \in Paths, NEW c \in Contents, raw'[p] = c PROVE Was(p, c)'
      <3>1. CASE raw[p] = c
        BY <3>1, <1>6, StillWas DEF IngestInv, HistoryKept
      <3>2. CASE raw[p] # c
        <4>1. p \in DOMAIN change /\ change[p] = c
          BY <2>1, <3>2, <1>1, NoneOutside
        <4> QED BY <4>1, <1>4, <1>5 DEF Was
      <3> QED BY <3>1, <3>2
    <2>2. ASSUME NEW p \in Paths, NEW c \in Contents, Was(p, c)', raw'[p] = None PROVE p \in gone'
      <3>1. PICK i \in 1..(N + 1) : p \in DOMAIN log'[i] /\ log'[i][p] = c
        BY <2>2, <1>4 DEF Was
      <3>2. i # N + 1
        BY <3>1, <2>2, <1>4, <1>1
      <3>3. Was(p, c)
        BY <3>1, <3>2, <1>4, <1>5 DEF Was
      <3> QED BY <3>3, <2>2, <1>1 DEF IngestInv, HistoryKept
    <2> QED BY <2>1, <2>2 DEF HistoryKept
  <1>10. StoreTyped' /\ ManifestsTrue'
    <2>1. StoreTyped'
      BY DEF IngestInv, StoreTyped, GitCommit, store
    <2>2. \A m : Provenance(m) => \A c \in Contents, p \in Paths : m[c] = p => Was(p, c)'
      BY <1>6, StillProvenance
    <2>3. ManifestsTrue'
      BY <2>2 DEF IngestInv, ManifestsTrue, Provenance, GitCommit, store, thread
    <2> QED BY <2>1, <2>3
  <1>11. IndexTyped' /\ DocumentsTrue'
    <2>1. \A p, c : Was(p, c) => Was(p, c)'
      BY <1>6, StillWas
    <2> QED BY <2>1 DEF IngestInv, IndexTyped, DocumentsTrue, GitCommit
  <1>12. ThreadsTyped' /\ ItemsTrue' /\ StatusesTrue' /\ JobHeld'
    <2>1. UNCHANGED pc
      <3> QED BY DEF GitCommit
    <2> QED BY <2>1, <1>4, <1>5, <1>6, ThreadsFrame DEF GitCommit, IngestInv, N
  <1>13. AcksTrue'
    <2>1. \A p \in Paths, c \in Contents \ Empty : Secured(p, c) => Secured(p, c)'
      BY <1>6, StillSecured
    <2>2. SUFFICES ASSUME NEW i \in 1..(N + 1), verdict'[i] = "acked"
          PROVE \A p \in Paths, c \in Contents \ Empty : Brought(i, p, c)' => Secured(p, c)'
      BY <1>4 DEF AcksTrue
    <2>3. verdict' = Append(verdict, "queued") /\ verdict \in Seq(Verdicts) /\ Len(verdict) = N
      BY DEF GitCommit, IngestInv, QueueTyped, N
    <2>4. i \in 1..N /\ verdict[i] = "acked"
      BY <2>2, <2>3, <1>5, AppendProperties
    <2> QED BY <2>1, <2>4, <1>4, <1>5 DEF IngestInv, AcksTrue, Brought
  <1>14. FailuresTyped'
    BY DEF IngestInv, FailuresTyped, GitCommit
  <1> QED BY <1>7, <1>8, <1>9, <1>10, <1>11, <1>12, <1>13, <1>14 DEF IngestInv

(* The steps of a thread that change neither the raw tree, the answers nor the index. *)
LEMMA QuietFrame ==
  ASSUME IngestInv, UNCHANGED <<repo, queue, index>>
  PROVE  /\ Kept
         /\ TreeTyped' /\ HistoryKept' /\ IndexTyped' /\ DocumentsTrue'
         /\ QueueTyped' /\ AcksTrue'
  <1>1. Kept
    BY KeptWhenUnchanged DEF repo
  <1>2. TreeTyped' /\ HistoryKept' /\ IndexTyped' /\ DocumentsTrue'
    BY TreeFrame, IndexFrame DEF repo, IngestInv
  <1>3. QueueTyped' /\ AcksTrue'
    BY <1>1, QueueFrame DEF repo, queue, IngestInv
  <1> QED BY <1>1, <1>2, <1>3

(* Where a thread is matters to its items, its statuses and its job only when it leaves
   the work list or takes a commit. *)
LEMMA MoveFrame ==
  ASSUME IngestInv, UNCHANGED <<repo, queue, index>>,
         UNCHANGED <<job, item, text, statuses>>,
         NEW r \in Threads, NEW s \in {"walk", "write", "replace", "load"},
         pc[r] # "reingest", pc' = [pc EXCEPT ![r] = s],
         r = "commit" => job # 0,
         NEW m \in Manifests, known' = [known EXCEPT ![r] = m]
  PROVE  ThreadsTyped' /\ ItemsTrue' /\ StatusesTrue' /\ JobHeld'
  <1>1. ThreadsTyped'
    BY DEF IngestInv, ThreadsTyped, Places, repo
  <1>2. ItemsTrue'
    <2>1. \A c \in Contents : item[r][c] = "none"
      BY DEF IngestInv, ItemsTrue
    <2>2. \A p \in Paths, t \in Contents \cup {None}, step \in Steps, c \in Contents :
            ItemTrue(step, p, t, c) => ItemTrue(step, p, t, c)'
      BY QuietFrame, StillItem
    <2>3. SUFFICES ASSUME NEW q \in Threads, NEW c \in Contents
          PROVE /\ item'[q][c] # "none" => pc'[q] = "reingest" /\ known'[q][c] # None
                /\ item'[q][c] = "converted" => text'[q][c] # None
                /\ \A p \in Paths, t \in Contents \cup {None}, step \in Steps :
                     item'[q][c] = step /\ known'[q][c] = p /\ text'[q][c] = t
                       => ItemTrue(step, p, t, c)'
      BY DEF ItemsTrue
    <2>4. CASE q = r
      BY <2>4, <2>1 DEF ItemTrue
    <2>5. CASE q # r
      <3>1. UNCHANGED <<item[q], known[q], text[q], pc[q]>>
        BY <2>5 DEF IngestInv, ThreadsTyped
      <3> QED BY <3>1, <2>2 DEF IngestInv, ItemsTrue
    <2> QED BY <2>4, <2>5
  <1>3. StatusesTrue'
    <2>1. \A p \in Paths, c \in Contents \ Empty : Secured(p, c) => Secured(p, c)'
      BY QuietFrame, StillSecured
    <2>2. CASE r = "commit"
      BY <2>2 DEF IngestInv, StatusesTrue
    <2>3. CASE r # "commit"
      <3>1. UNCHANGED <<statuses, job, pc["commit"]>>
        BY <2>3 DEF IngestInv, ThreadsTyped, Threads
      <3> QED BY <3>1, <2>1 DEF IngestInv, StatusesTrue, Brought, repo
    <2> QED BY <2>2, <2>3
  <1>4. JobHeld'
    BY DEF IngestInv, JobHeld, ThreadsTyped, Threads
  <1> QED BY <1>1, <1>2, <1>3, <1>4

LEMMA BeginCommitStep ==
  ASSUME IngestInv, NEW i \in DOMAIN log, BeginCommit(i) PROVE IngestInv'
  <1>1. Kept
    BY KeptWhenUnchanged DEF BeginCommit, repo
  <1>2. TreeTyped' /\ HistoryKept' /\ IndexTyped' /\ DocumentsTrue'
    BY TreeFrame, IndexFrame DEF BeginCommit, repo, IngestInv
  <1>3. i \in 1..Len(log) /\ i # 0 /\ Len(log) \in Nat /\ tries[i] \in 0..MaxDeliver /\ DOMAIN tries = 1..Len(log)
    BY QueueRead DEF IngestInv
  <1>4. QueueTyped'
    <2>1. tries[i] + 1 \in 0..MaxDeliver
      BY <1>3, IngestAssumption DEF BeginCommit, Deliverable
    <2>2. tries' \in Seq(0..MaxDeliver) /\ Len(tries') = Len(tries)
      BY <2>1, <1>3, ExceptSeq DEF BeginCommit, IngestInv, QueueTyped
    <2> QED BY <2>2 DEF BeginCommit, IngestInv, QueueTyped, repo
  <1>5. AcksTrue'
    <2>1. \A p \in Paths, c \in Contents \ Empty : Secured(p, c) => Secured(p, c)'
      BY <1>1, StillSecured
    <2> QED BY <2>1 DEF AcksTrue, Brought, BeginCommit, repo, IngestInv
  <1>6. StoreTyped' /\ ManifestsTrue'
    <2>1. Provenance(OnDisk) /\ OnDisk \in Manifests
      BY OnDiskTyped DEF IngestInv
    <2>2. \A r \in Threads : Provenance(known'[r])
      BY <2>1 DEF IngestInv, ManifestsTrue, BeginCommit, ThreadsTyped
    <2> QED BY <2>2, StoreFrame DEF BeginCommit, repo, IngestInv
  <1>7. ThreadsTyped' /\ StatusesTrue' /\ JobHeld'
    <2>1. ThreadsTyped'
      BY <1>3, OnDiskTyped DEF BeginCommit, IngestInv, ThreadsTyped, Threads, Places, repo
    <2>2. JobHeld'
      BY <1>3 DEF BeginCommit, JobHeld
    <2> QED BY <2>1, <2>2 DEF BeginCommit, IngestInv, StatusesTrue
  <1>8. ItemsTrue'
    <2>1. \A c \in Contents : item["commit"][c] = "none"
      BY DEF BeginCommit, IngestInv, ItemsTrue, Threads
    <2>2. \A p \in Paths, t \in Contents \cup {None}, step \in Steps, c \in Contents :
            ItemTrue(step, p, t, c) => ItemTrue(step, p, t, c)'
      BY <1>1, StillItem
    <2>3. SUFFICES ASSUME NEW q \in Threads, NEW c \in Contents
          PROVE /\ item'[q][c] # "none" => pc'[q] = "reingest" /\ known'[q][c] # None
                /\ item'[q][c] = "converted" => text'[q][c] # None
                /\ \A p \in Paths, t \in Contents \cup {None}, step \in Steps :
                     item'[q][c] = step /\ known'[q][c] = p /\ text'[q][c] = t
                       => ItemTrue(step, p, t, c)'
      BY DEF ItemsTrue
    <2>4. CASE q = "commit"
      BY <2>4, <2>1 DEF ItemTrue, BeginCommit
    <2>5. CASE q # "commit"
      <3>1. UNCHANGED <<item[q], known[q], text[q], pc[q]>>
        BY <2>5 DEF IngestInv, ThreadsTyped, BeginCommit
      <3> QED BY <3>1, <2>2 DEF IngestInv, ItemsTrue
    <2> QED BY <2>4, <2>5
  <1> QED BY <1>2, <1>4, <1>5, <1>6, <1>7, <1>8 DEF IngestInv, BeginCommit, FailuresTyped

LEMMA BeginCatchupStep ==
  ASSUME IngestInv, BeginCatchup PROVE IngestInv'
  <1>1. OnDisk \in Manifests /\ Provenance(OnDisk)
    BY OnDiskTyped DEF IngestInv
  <1>2. ThreadsTyped' /\ ItemsTrue' /\ StatusesTrue' /\ JobHeld'
    BY <1>1, MoveFrame DEF BeginCatchup, Threads
  <1>3. StoreTyped' /\ ManifestsTrue'
    <2>1. \A r \in Threads : Provenance(known'[r])
      BY <1>1 DEF IngestInv, ManifestsTrue, BeginCatchup, ThreadsTyped
    <2> QED BY <2>1, StoreFrame DEF BeginCatchup, repo, IngestInv
  <1> QED BY <1>2, <1>3, QuietFrame DEF IngestInv, BeginCatchup, FailuresTyped

(* The walk registers a content where it is. *)
LEMMA RefreshedProvenance ==
  ASSUME TreeTyped, HistoryKept, NEW m \in Manifests, Provenance(m)
  PROVE  Refreshed(m) \in Manifests /\ Provenance(Refreshed(m))
  <1>1. ASSUME NEW c \in Contents, Holders(c) # {}
        PROVE  FirstHolder(c) \in Paths /\ raw[FirstHolder(c)] = c
    <2>1. Holders(c) \in SUBSET Nat
      BY IngestAssumption DEF Holders
    <2>2. \E p \in Holders(c) : \A q \in Holders(c) : p <= q
      BY <1>1, <2>1, LeastExists
    <2>3. FirstHolder(c) \in Holders(c)
      BY <2>2 DEF FirstHolder
    <2> QED BY <2>3 DEF Holders
  <1>2. Refreshed(m) \in Manifests
    BY <1>1 DEF Refreshed, Manifests
  <1>3. ASSUME NEW c \in Contents, NEW p \in Paths, Refreshed(m)[c] = p PROVE Was(p, c)
    <2>1. CASE m[c] # None \/ Holders(c) = {}
      BY <2>1, <1>3 DEF Refreshed, Provenance
    <2>2. CASE ~(m[c] # None \/ Holders(c) = {})
      BY <2>2, <1>3, <1>1 DEF Refreshed, HistoryKept
    <2> QED BY <2>1, <2>2
  <1> QED BY <1>2, <1>3 DEF Provenance

LEMMA WalkStep ==
  ASSUME IngestInv, NEW r \in Threads, Walk(r) PROVE IngestInv'
  <1> DEFINE m == Refreshed(known[r])
  <1>1. m \in Manifests /\ Provenance(m)
    BY RefreshedProvenance DEF IngestInv, ThreadsTyped, ManifestsTrue
  <1>2. PICK s \in {"load", "write"} : pc' = [pc EXCEPT ![r] = s]
    BY DEF Walk
  <1>3. known' = [known EXCEPT ![r] = m]
    BY DEF Walk
  <1> HIDE DEF m
  <1>4. ThreadsTyped' /\ ItemsTrue' /\ StatusesTrue' /\ JobHeld'
    <2>1. r = "commit" => job # 0
      BY DEF Walk, IngestInv, JobHeld
    <2> QED BY <1>1, <1>2, <1>3, <2>1, MoveFrame DEF Walk
  <1>5. StoreTyped' /\ ManifestsTrue'
    <2>1. \A q \in Threads : Provenance(known'[q])
      BY <1>1, <1>3 DEF IngestInv, ManifestsTrue, ThreadsTyped
    <2>2. \A n : Provenance(n) => Provenance(n)'
      BY DEF Walk, repo, Provenance, Was
    <2>3. ManifestsTrue'
      BY <2>1, <2>2 DEF IngestInv, ManifestsTrue, Walk, Provenance, repo, Was
    <2>4. StoreTyped'
      BY DEF IngestInv, StoreTyped, Walk
    <2> QED BY <2>3, <2>4
  <1> QED BY <1>4, <1>5, QuietFrame DEF IngestInv, Walk, FailuresTyped

LEMMA WriteStep ==
  ASSUME IngestInv, NEW r \in Threads, Write(r) PROVE IngestInv'
  <1>1. ThreadsTyped' /\ ItemsTrue' /\ StatusesTrue' /\ JobHeld'
    <2>1. r = "commit" => job # 0
      BY DEF Write, IngestInv, JobHeld
    <2>2. known[r] \in Manifests /\ known' = [known EXCEPT ![r] = known[r]]
      BY DEF Write, IngestInv, ThreadsTyped, thread
    <2>3. pc[r] # "reingest" /\ pc' = [pc EXCEPT ![r] = "replace"]
          /\ UNCHANGED <<job, item, text, statuses>> /\ UNCHANGED <<repo, queue, index>>
      BY DEF Write, thread
    <2> QED BY <2>1, <2>2, <2>3, MoveFrame
  <1>2. known[r] \in Manifests /\ Provenance(known[r])
    BY DEF IngestInv, ThreadsTyped, ManifestsTrue
  <1>3. /\ manifest' = manifest \/ manifest' \in {Torn, known[r]}
        /\ tmp' = tmp \/ tmp' \in {Torn, known[r]}
    BY DEF Write, Written
  <1>4. StoreTyped'
    <2>1. registered' \subseteq Contents
      BY DEF IngestInv, StoreTyped, Write, Known
    <2> QED BY <2>1, <1>2, <1>3 DEF IngestInv, StoreTyped, Write
  <1>5. ManifestsTrue'
    <2>1. \A n : Provenance(n) => Provenance(n)'
      BY DEF Write, repo, Provenance, Was
    <2> QED BY <1>2, <1>3, <2>1 DEF IngestInv, ManifestsTrue, Write, thread, Provenance, repo, Was
  <1> QED BY <1>1, <1>4, <1>5, QuietFrame DEF IngestInv, Write, FailuresTyped

LEMMA ReplaceStep ==
  ASSUME IngestInv, NEW r \in Threads, Replace(r) PROVE IngestInv'
  <1>1. ThreadsTyped' /\ ItemsTrue' /\ StatusesTrue' /\ JobHeld'
    <2>1. r = "commit" => job # 0
      BY DEF Replace, IngestInv, JobHeld
    <2>2. known[r] \in Manifests /\ known' = [known EXCEPT ![r] = known[r]]
      BY DEF Replace, IngestInv, ThreadsTyped, thread
    <2>3. pc[r] # "reingest" /\ pc' = [pc EXCEPT ![r] = "load"]
          /\ UNCHANGED <<job, item, text, statuses>> /\ UNCHANGED <<repo, queue, index>>
      BY DEF Replace, thread
    <2> QED BY <2>1, <2>2, <2>3, MoveFrame
  <1>2. StoreTyped'
    <2>1. registered' \subseteq Contents
      BY DEF IngestInv, StoreTyped, Replace, Known
    <2> QED BY <2>1 DEF IngestInv, StoreTyped, Replace
  <1>3. ManifestsTrue'
    <2>1. \A n : Provenance(n) => Provenance(n)'
      BY DEF Replace, repo, Provenance, Was
    <2>2. manifest' # Torn => Provenance(manifest')
      BY DEF IngestInv, ManifestsTrue, Replace
    <2> QED BY <2>1, <2>2 DEF IngestInv, ManifestsTrue, Replace, thread, Provenance, repo, Was
  <1> QED BY <1>1, <1>2, <1>3, QuietFrame DEF IngestInv, Replace, FailuresTyped

(* Any answer but an ack leaves the acks as they are. *)
LEMMA AnswerTyped ==
  ASSUME QueueTyped, Kept, UNCHANGED <<log, tries>>, NEW failed \in BOOLEAN, Answer(failed)
  PROVE  /\ QueueTyped'
         /\ AcksTrue /\ (~failed /\ job \in DOMAIN log
                           => \A p \in Paths, c \in Contents \ Empty :
                                Brought(job, p, c) => Secured(p, c)')
              => AcksTrue'
  <1>1. DOMAIN verdict = 1..Len(log) /\ DOMAIN log = 1..Len(log) /\ Len(log) \in Nat
    BY QueueRead
  <1>2. QueueTyped'
    <2>1. verdict \in Seq(Verdicts)
      BY DEF QueueTyped
    <2>2. \A v \in Verdicts : /\ [verdict EXCEPT ![job] = v] \in Seq(Verdicts)
                              /\ Len([verdict EXCEPT ![job] = v]) = Len(verdict)
      <3>1. CASE job \in 1..Len(verdict)
        BY <2>1, <3>1, ExceptSeq
      <3>2. CASE job \notin 1..Len(verdict)
        <4>1. \A v : [verdict EXCEPT ![job] = v] = verdict
          BY <3>2, <2>1
        <4> QED BY <4>1, <2>1
      <3> QED BY <3>1, <3>2
    <2>3. \E v \in Verdicts : verdict' = [verdict EXCEPT ![job] = v]
      BY DEF Answer, Verdicts
    <2> QED BY <2>2, <2>3 DEF QueueTyped
  <1>3. ASSUME AcksTrue, ~failed /\ job \in DOMAIN log
                           => \A p \in Paths, c \in Contents \ Empty :
                                Brought(job, p, c) => Secured(p, c)'
        PROVE  AcksTrue'
    <2>1. \A p \in Paths, c \in Contents \ Empty : Secured(p, c) => Secured(p, c)'
      BY StillSecured
    <2>2. SUFFICES ASSUME NEW i \in DOMAIN log, verdict'[i] = "acked",
                          NEW p \in Paths, NEW c \in Contents \ Empty, Brought(i, p, c)
          PROVE Secured(p, c)'
      BY DEF AcksTrue, Brought
    <2>3. CASE i = job /\ ~failed
      BY <2>2, <2>3, <1>3
    <2>4. CASE i = job /\ failed
      BY <2>2, <2>4, <1>1 DEF Answer
    <2>5. CASE i # job
      <3>1. verdict[i] = "acked"
        BY <2>2, <2>5, <1>1 DEF Answer
      <3> QED BY <3>1, <2>1, <2>2, <1>3 DEF AcksTrue
    <2> QED BY <2>3, <2>4, <2>5
  <1> QED BY <1>2, <1>3

LEMMA RaiseStep ==
  ASSUME IngestInv, NEW r \in Threads, Raise(r), UNCHANGED store, FailuresTyped' PROVE IngestInv'
  <1>1. Kept
    BY KeptWhenUnchanged DEF Raise, repo
  <1>2. TreeTyped' /\ HistoryKept' /\ IndexTyped' /\ DocumentsTrue'
    BY TreeFrame, IndexFrame DEF Raise, repo, IngestInv
  <1>3. /\ ThreadsTyped' /\ ItemsTrue' /\ StatusesTrue' /\ JobHeld'
        /\ \A q \in Threads : Provenance(known'[q])
    <2>1. PICK s \in {"idle", "dead"} : pc' = [pc EXCEPT ![r] = s]
      BY DEF Raise
    <2> QED BY <2>1, <1>1, ResetStep DEF Raise, repo, IngestInv
  <1>4. StoreTyped' /\ ManifestsTrue'
    BY <1>3, StoreFrame DEF Raise, repo, IngestInv
  <1>5. QueueTyped' /\ AcksTrue'
    <2>1. CASE r = "commit"
      BY <2>1, <1>1, AnswerTyped DEF Raise, repo, IngestInv
    <2>2. CASE r # "commit"
      BY <2>2, <1>1, QueueFrame DEF Raise, repo, IngestInv
    <2> QED BY <2>1, <2>2
  <1> QED BY <1>2, <1>3, <1>4, <1>5 DEF IngestInv

LEMMA RaisesStep ==
  ASSUME IngestInv, NEW r \in Threads, ReplaceRaises(r) \/ LoadRaises(r) PROVE IngestInv'
  <1>1. FailuresTyped'
    BY IngestAssumption DEF IngestInv, FailuresTyped, ReplaceRaises, LoadRaises, Failure, NoFailure
  <1> QED BY <1>1, RaiseStep DEF ReplaceRaises, LoadRaises

(* The work list: what is skipped is in the index. *)
LEMMA WorkListStep ==
  ASSUME IngestInv, UNCHANGED <<repo, index, job, text, statuses>>, NEW r \in Threads,
         pc[r] = "load", pc' = [pc EXCEPT ![r] = "reingest"],
         NEW m \in Manifests, Provenance(m), known' = [known EXCEPT ![r] = m],
         NEW only, None \notin only, item' = [item EXCEPT ![r] = WorkList(m, only)]
  PROVE  /\ ThreadsTyped' /\ ItemsTrue' /\ StatusesTrue' /\ JobHeld'
         /\ \A q \in Threads : Provenance(known'[q])
  <1>1. Kept
    BY KeptWhenUnchanged DEF repo
  <1>2. WorkList(m, only) \in [Contents -> Steps]
    BY DEF WorkList, Steps
  <1>3. ThreadsTyped'
    BY <1>2 DEF IngestInv, ThreadsTyped, Places, repo
  <1>4. ItemsTrue'
    <2>1. \A p \in Paths, t \in Contents \cup {None}, step \in Steps, c \in Contents :
            ItemTrue(step, p, t, c) => ItemTrue(step, p, t, c)'
      BY <1>1, StillItem
    <2>2. SUFFICES ASSUME NEW q \in Threads, NEW c \in Contents
          PROVE /\ item'[q][c] # "none" => pc'[q] = "reingest" /\ known'[q][c] # None
                /\ item'[q][c] = "converted" => text'[q][c] # None
                /\ \A p \in Paths, t \in Contents \cup {None}, step \in Steps :
                     item'[q][c] = step /\ known'[q][c] = p /\ text'[q][c] = t
                       => ItemTrue(step, p, t, c)'
      BY DEF ItemsTrue
    <2>3. CASE q = r
      <3>1. item'[q][c] = WorkList(m, only)[c] /\ pc'[q] = "reingest" /\ known'[q][c] = m[c]
        BY <2>3 DEF IngestInv, ThreadsTyped
      <3>2. item'[q][c] \in {"none", "skip", "todo"} /\ (item'[q][c] # "none" => m[c] \in only)
        BY <3>1 DEF WorkList
      <3>3. item'[q][c] = "skip" => c \in Indexed
        BY <3>1 DEF WorkList
      <3>4. item'[q][c] = "skip" => \A p \in Paths : Secured(p, c)'
        BY <3>3, <1>1, IndexedSecured, StillSecured DEF IngestInv
      <3> QED BY <3>1, <3>2, <3>4 DEF ItemTrue
    <2>4. CASE q # r
      <3>1. UNCHANGED <<item[q], known[q], text[q], pc[q]>>
        BY <2>4 DEF IngestInv, ThreadsTyped
      <3> QED BY <3>1, <2>1 DEF IngestInv, ItemsTrue
    <2> QED BY <2>3, <2>4
  <1>5. StatusesTrue'
    <2>1. \A p \in Paths, c \in Contents \ Empty : Secured(p, c) => Secured(p, c)'
      BY <1>1, StillSecured
    <2>2. pc["commit"] = "reingest" => pc'["commit"] = "reingest"
      BY DEF IngestInv, ThreadsTyped, Threads
    <2> QED BY <2>1, <2>2 DEF IngestInv, StatusesTrue, Brought, repo
  <1>6. JobHeld'
    BY DEF IngestInv, JobHeld, ThreadsTyped, Threads
  <1>7. \A q \in Threads : Provenance(known'[q])
    BY DEF IngestInv, ManifestsTrue, ThreadsTyped
  <1> QED BY <1>3, <1>4, <1>5, <1>6, <1>7

LEMMA LoadCommitStep ==
  ASSUME IngestInv, LoadCommit PROVE IngestInv'
  <1>1. Kept
    BY KeptWhenUnchanged DEF LoadCommit, repo
  <1>2. TreeTyped' /\ HistoryKept' /\ IndexTyped' /\ DocumentsTrue'
    BY TreeFrame, IndexFrame DEF LoadCommit, repo, IngestInv
  <1>3. FailuresTyped'
    BY DEF LoadCommit, IngestInv, FailuresTyped
  <1>4. CASE JobFiles = {}
    <2>1. Reset("commit") /\ pc' = [pc EXCEPT !["commit"] = "idle"] /\ Answer(FALSE)
          /\ UNCHANGED <<log, tries, store>>
      BY <1>4 DEF LoadCommit, repo
    <2>2. /\ ThreadsTyped' /\ ItemsTrue' /\ StatusesTrue' /\ JobHeld'
          /\ \A q \in Threads : Provenance(known'[q])
      BY <2>1, <1>1, ResetStep DEF IngestInv, Threads
    <2>3. StoreTyped' /\ ManifestsTrue'
      BY <2>1, <2>2, StoreFrame DEF IngestInv
    <2>4. \A p, c : ~Brought(job, p, c)
      BY <1>4 DEF Brought, JobFiles
    <2>5. QueueTyped' /\ AcksTrue'
      BY <2>1, <2>4, <1>1, AnswerTyped DEF IngestInv
    <2> QED BY <1>2, <1>3, <2>2, <2>3, <2>5 DEF IngestInv
  <1>5. CASE JobFiles # {}
    <2>1. OnDisk \in Manifests /\ Provenance(OnDisk)
      BY OnDiskTyped DEF IngestInv
    <2>2. None \notin JobFiles
      BY QueueRead, NoneOutside DEF IngestInv, ThreadsTyped, JobFiles, LoadCommit, JobHeld
    <2>3. /\ ThreadsTyped' /\ ItemsTrue' /\ StatusesTrue' /\ JobHeld'
          /\ \A q \in Threads : Provenance(known'[q])
      BY <1>5, <2>1, <2>2, WorkListStep DEF LoadCommit, Threads
    <2>4. StoreTyped' /\ ManifestsTrue'
      BY <2>3, StoreFrame DEF IngestInv, LoadCommit, repo
    <2>5. QueueTyped' /\ AcksTrue'
      BY <1>1, <1>5, QueueFrame DEF IngestInv, LoadCommit, repo
    <2> QED BY <1>2, <1>3, <2>3, <2>4, <2>5 DEF IngestInv
  <1> QED BY <1>4, <1>5

LEMMA LoadCatchupStep ==
  ASSUME IngestInv, LoadCatchup PROVE IngestInv'
  <1>1. Kept /\ TreeTyped' /\ HistoryKept' /\ IndexTyped' /\ DocumentsTrue' /\ QueueTyped' /\ AcksTrue'
    BY QuietFrame DEF LoadCatchup
  <1>2. FailuresTyped'
    BY DEF LoadCatchup, IngestInv, FailuresTyped
  <1>3. /\ ThreadsTyped' /\ ItemsTrue' /\ StatusesTrue' /\ JobHeld'
        /\ \A q \in Threads : Provenance(known'[q])
    <2>1. CASE Pending = {}
      <3>1. Reset("catchup") /\ pc' = [pc EXCEPT !["catchup"] = "idle"] /\ UNCHANGED log
        BY <2>1 DEF LoadCatchup, repo
      <3> QED BY <3>1, <1>1, ResetStep DEF IngestInv, Threads
    <2>2. CASE Pending # {}
      <3> DEFINE m == known["catchup"]
                 only == {m[c] : c \in Pending}
      <3>1. m \in Manifests /\ Provenance(m) /\ known' = [known EXCEPT !["catchup"] = m]
        BY <2>2 DEF LoadCatchup, IngestInv, ThreadsTyped, ManifestsTrue, Threads
      <3>2. None \notin only
        BY DEF Pending
      <3>3. item' = [item EXCEPT !["catchup"] = WorkList(m, only)]
        BY <2>2 DEF LoadCatchup
      <3> HIDE DEF m, only
      <3> QED BY <2>2, <3>1, <3>2, <3>3, WorkListStep DEF LoadCatchup, Threads
    <2> QED BY <2>1, <2>2
  <1>4. StoreTyped' /\ ManifestsTrue'
    BY <1>3, StoreFrame DEF LoadCatchup, repo, IngestInv
  <1> QED BY <1>1, <1>2, <1>3, <1>4 DEF IngestInv

(* The steps of an item that leave the index alone. *)
LEMMA ItemQuietStep ==
  ASSUME IngestInv, NEW r \in Threads, NEW c \in Contents,
         SkipItem(r, c) \/ FindMissing(r, c) \/ Convert(r, c)
  PROVE  IngestInv'
  <1>1. UNCHANGED <<repo, queue, store, index, pc, job, known>>
    BY DEF SkipItem, FindMissing, Convert
  <1>2. Kept /\ TreeTyped' /\ HistoryKept' /\ IndexTyped' /\ DocumentsTrue' /\ QueueTyped' /\ AcksTrue'
    BY <1>1, QuietFrame
  <1>3. FailuresTyped'
    BY IngestAssumption DEF IngestInv, FailuresTyped, SkipItem, FindMissing, Convert, Failure, NoFailure
  <1>4. StoreTyped' /\ ManifestsTrue'
    BY <1>1, StoreFrame DEF IngestInv, ManifestsTrue, repo
  <1>5. pc[r] = "reingest" /\ item[r][c] # "none" /\ known[r][c] \in Paths
    BY DEF IngestInv, ItemsTrue, ThreadsTyped, Manifests, SkipItem, FindMissing, Convert, AtItem
  <1>6. PICK p \in Paths : known[r][c] = p
    BY <1>5
  <1>7. Was(p, c)
    BY <1>6 DEF IngestInv, ManifestsTrue, Provenance
  <1>8. text[r][c] \in Contents \cup {None} /\ item[r][c] \in Steps
    BY DEF IngestInv, ThreadsTyped
  <1>9. UNCHANGED <<log, pc, job, known, gone, index>>
    BY <1>1 DEF repo
  <1>10. CASE SkipItem(r, c)
    <2>1. Secured(p, c)
      BY <1>6, <1>8, <1>10 DEF SkipItem, AtItem, IngestInv, ItemsTrue, ItemTrue, Steps
    <2>2. ASSUME NEW d \in Contents PROVE Secured(p, d)'
      <3>1. Secured(p, d)
        BY <2>1, <1>7, SettledAlone DEF Secured
      <3> QED BY <3>1, <1>2, StillSecured
    <2>3. Record(r, c, "ok") /\ UNCHANGED text
      BY <1>10 DEF SkipItem
    <2>4. ThreadsTyped' /\ ItemsTrue' /\ StatusesTrue' /\ JobHeld'
      BY <2>2, <2>3, <1>2, <1>5, <1>6, <1>9, RecordStep DEF IngestInv
    <2> QED BY <2>4, <1>2, <1>3, <1>4 DEF IngestInv
  <1>11. CASE Convert(r, c)
    <2>1. raw[p] # None /\ raw[p] \in Contents
      BY <1>6, <1>11 DEF Convert, Missing, IngestInv, TreeTyped
    <2>2. PICK content \in Contents : raw[p] = content
      BY <2>1
    <2>3. Was(p, content)
      BY <2>2 DEF IngestInv, HistoryKept
    <2>4. CASE content \in Empty /\ Record(r, c, "ok") /\ UNCHANGED text
      <3>1. ASSUME NEW d \in Contents \ Empty PROVE Secured(p, d)'
        <4>1. Secured(p, d)
          BY <2>3, <2>4, SettledAlone DEF Secured
        <4> QED BY <4>1, <1>2, StillSecured
      <3>2. ThreadsTyped' /\ ItemsTrue' /\ StatusesTrue' /\ JobHeld'
        BY <2>4, <3>1, <1>2, <1>5, <1>6, <1>9, RecordStep DEF IngestInv
      <3> QED BY <3>2, <1>2, <1>3, <1>4 DEF IngestInv
    <2>5. CASE Record(r, c, "failed") /\ UNCHANGED text
      <3>2. ThreadsTyped' /\ ItemsTrue' /\ StatusesTrue' /\ JobHeld'
        BY <2>5, <1>2, <1>5, <1>6, <1>9, RecordStep DEF IngestInv
      <3> QED BY <3>2, <1>2, <1>3, <1>4 DEF IngestInv
    <2>6. CASE /\ text' = [text EXCEPT ![r][c] = content]
               /\ item' = [item EXCEPT ![r][c] = "converted"]
               /\ UNCHANGED statuses
      <3>1. ThreadsTyped'
        <4>1. [text[r] EXCEPT ![c] = content] \in [Contents -> Contents \cup {None}]
          BY DEF IngestInv, ThreadsTyped
        <4>2. text' \in [Threads -> [Contents -> Contents \cup {None}]]
          BY <2>6, <4>1 DEF IngestInv, ThreadsTyped
        <4>3. item' \in [Threads -> [Contents -> Steps]]
          BY <2>6 DEF IngestInv, ThreadsTyped, Steps
        <4> QED BY <4>2, <4>3, <2>6, <1>9 DEF IngestInv, ThreadsTyped
      <3>2. ItemsTrue'
        <4>1. \A o \in Paths, t \in Contents \cup {None}, step \in Steps, e \in Contents :
                ItemTrue(step, o, t, e) => ItemTrue(step, o, t, e)'
          BY <1>2, StillItem
        <4>2. SUFFICES ASSUME NEW q \in Threads, NEW e \in Contents
              PROVE /\ item'[q][e] # "none" => pc'[q] = "reingest" /\ known'[q][e] # None
                    /\ item'[q][e] = "converted" => text'[q][e] # None
                    /\ \A o \in Paths, t \in Contents \cup {None}, step \in Steps :
                         item'[q][e] = step /\ known'[q][e] = o /\ text'[q][e] = t
                           => ItemTrue(step, o, t, e)'
          BY DEF ItemsTrue
        <4>3. CASE q = r /\ e = c
          <5>1. item'[q][e] = "converted" /\ text'[q][e] = content
            BY <4>3, <2>6 DEF IngestInv, ThreadsTyped
          <5>2. Was(p, content)'
            BY <2>3, <1>9 DEF Was
          <5> QED BY <5>1, <5>2, <4>3, <1>5, <1>6, <1>9, NoneOutside DEF ItemTrue
        <4>4. CASE ~(q = r /\ e = c)
          <5>1. UNCHANGED <<item[q][e], text[q][e]>>
            BY <4>4, <2>6 DEF IngestInv, ThreadsTyped
          <5> QED BY <5>1, <4>1, <1>9 DEF IngestInv, ItemsTrue
        <4> QED BY <4>3, <4>4
      <3>3. StatusesTrue'
        <4>1. \A q \in Paths, d \in Contents \ Empty : Secured(q, d) => Secured(q, d)'
          BY <1>2, StillSecured
        <4> QED BY <4>1, <2>6, <1>9 DEF IngestInv, StatusesTrue, Brought
      <3>4. JobHeld'
        BY <1>9 DEF IngestInv, JobHeld
      <3> QED BY <3>1, <3>2, <3>3, <3>4, <1>2, <1>3, <1>4 DEF IngestInv
    <2> QED BY <1>6, <1>11, <2>2, <2>4, <2>5, <2>6 DEF Convert
  <1>12. CASE FindMissing(r, c)
    <2>1. p \in gone
      BY <1>6, <1>7, <1>12 DEF FindMissing, Missing, IngestInv, HistoryKept
    <2>2. item' = [item EXCEPT ![r][c] = "gone"] /\ UNCHANGED <<text, statuses>>
      BY <1>12 DEF FindMissing
    <2>3. ThreadsTyped'
      <3>1. item' \in [Threads -> [Contents -> Steps]]
        BY <2>2 DEF IngestInv, ThreadsTyped, Steps
      <3> QED BY <3>1, <2>2, <1>9 DEF IngestInv, ThreadsTyped
    <2>4. ItemsTrue'
      <3>1. \A o \in Paths, t \in Contents \cup {None}, step \in Steps, e \in Contents :
              ItemTrue(step, o, t, e) => ItemTrue(step, o, t, e)'
        BY <1>2, StillItem
      <3>2. SUFFICES ASSUME NEW q \in Threads, NEW e \in Contents
            PROVE /\ item'[q][e] # "none" => pc'[q] = "reingest" /\ known'[q][e] # None
                  /\ item'[q][e] = "converted" => text'[q][e] # None
                  /\ \A o \in Paths, t \in Contents \cup {None}, step \in Steps :
                       item'[q][e] = step /\ known'[q][e] = o /\ text'[q][e] = t
                         => ItemTrue(step, o, t, e)'
        BY DEF ItemsTrue
      <3>3. CASE q = r /\ e = c
        <4>1. item'[q][e] = "gone"
          BY <3>3, <2>2 DEF IngestInv, ThreadsTyped
        <4> QED BY <4>1, <3>3, <2>1, <1>5, <1>6, <1>9, NoneOutside DEF ItemTrue
      <3>4. CASE ~(q = r /\ e = c)
        <4>1. UNCHANGED <<item[q][e], text[q][e]>>
          BY <3>4, <2>2 DEF IngestInv, ThreadsTyped
        <4> QED BY <4>1, <3>1, <1>9 DEF IngestInv, ItemsTrue
      <3> QED BY <3>3, <3>4
    <2>5. StatusesTrue'
      <3>1. \A q \in Paths, d \in Contents \ Empty : Secured(q, d) => Secured(q, d)'
        BY <1>2, StillSecured
      <3> QED BY <3>1, <2>2, <1>9 DEF IngestInv, StatusesTrue, Brought
    <2>6. JobHeld'
      BY <1>9 DEF IngestInv, JobHeld
    <2> QED BY <2>3, <2>4, <2>5, <2>6, <1>2, <1>3, <1>4 DEF IngestInv
  <1> QED BY <1>10, <1>11, <1>12

(* The steps of an item that change the index: documents vanish from a deleted path
   only, and the document that is written is of a text that was at its path. *)
LEMMA ItemIndexStep ==
  ASSUME IngestInv, NEW r \in Threads, NEW c \in Contents, Tombstone(r, c) \/ WriteDoc(r, c)
  PROVE  IngestInv' /\ Kept
  <1>1. UNCHANGED <<repo, queue, store, pc, job, known>>
    BY DEF Tombstone, WriteDoc
  <1>2. UNCHANGED <<log, pc, job, known, gone>>
    BY <1>1 DEF repo
  <1>3. pc[r] = "reingest" /\ item[r][c] # "none" /\ known[r][c] \in Paths
    BY DEF IngestInv, ItemsTrue, ThreadsTyped, Manifests, Tombstone, WriteDoc, AtItem
  <1>4. PICK p \in Paths : known[r][c] = p
    BY <1>3
  <1>5. Was(p, c)
    BY <1>4 DEF IngestInv, ManifestsTrue, Provenance
  <1>6. text[r][c] \in Contents \cup {None} /\ item[r][c] \in Steps
    BY DEF IngestInv, ThreadsTyped
  <1>7. /\ Tombstone(r, c) => p \in gone
        /\ WriteDoc(r, c) => text[r][c] \in Contents /\ Was(p, text[r][c])
    BY <1>4, <1>6 DEF Tombstone, WriteDoc, AtItem, IngestInv, ItemsTrue, ItemTrue, Steps
  <1>8. FailuresTyped'
    BY IngestAssumption DEF IngestInv, FailuresTyped, Tombstone, WriteDoc, Failure, NoFailure
  <1>9. IndexTyped' /\ DocumentsTrue' /\ Kept
    <2>1. \A q, d : Was(q, d)' <=> Was(q, d)
      BY <1>2 DEF Was
    <2>2. CASE UNCHANGED index
      BY <2>1, <2>2, <1>2 DEF IngestInv, IndexTyped, DocumentsTrue, Kept
    <2>3. CASE Tombstone(r, c) /\ index' = [d \in Docs |-> IF d[1] = p THEN None ELSE index[d]]
      <3>1. IndexTyped'
        BY <2>3 DEF IngestInv, IndexTyped
      <3>2. \A q \in Paths, t \in Contents :
              index'[<<q, t>>] = IF q = p THEN None ELSE index[<<q, t>>]
        BY <2>3 DEF Docs
      <3>3. DocumentsTrue'
        BY <3>2, <2>1, NoneOutside DEF IngestInv, DocumentsTrue
      <3>4. Kept
        BY <3>2, <1>2, <1>7, <2>3 DEF Kept
      <3> QED BY <3>1, <3>3, <3>4
    <2>4. CASE WriteDoc(r, c) /\ index' = [index EXCEPT ![<<p, text[r][c]>>] = c]
      <3>1. PICK t \in Contents : text[r][c] = t /\ Was(p, t)
        BY <2>4, <1>7
      <3>2. IndexTyped'
        BY <2>4, <3>1 DEF IngestInv, IndexTyped, Docs
      <3>3. \A q \in Paths, u \in Contents :
              index'[<<q, u>>] = IF q = p /\ u = t THEN c ELSE index[<<q, u>>]
        BY <2>4, <3>1 DEF IngestInv, IndexTyped, Docs
      <3>4. DocumentsTrue'
        BY <3>1, <3>3, <2>1, <1>5 DEF IngestInv, DocumentsTrue
      <3>5. Kept
        BY <3>3, <1>2, NoneOutside DEF Kept
      <3> QED BY <3>2, <3>4, <3>5
    <2> QED BY <1>4, <2>2, <2>3, <2>4 DEF Tombstone, WriteDoc
  <1>10. TreeTyped' /\ HistoryKept' /\ QueueTyped' /\ AcksTrue'
    BY <1>1, <1>2, <1>9, TreeFrame, QueueFrame DEF IngestInv, queue
  <1>11. StoreTyped' /\ ManifestsTrue'
    BY <1>1, <1>2, StoreFrame DEF IngestInv, ManifestsTrue
  <1>12. ThreadsTyped' /\ ItemsTrue' /\ StatusesTrue' /\ JobHeld'
    <2>1. UNCHANGED text \/ text' = [text EXCEPT ![r][c] = None]
      BY DEF Tombstone, WriteDoc
    <2>2. CASE Record(r, c, "failed")
      BY <2>1, <2>2, <1>2, <1>3, <1>4, <1>9, RecordStep DEF IngestInv
    <2>3. CASE Tombstone(r, c) /\ Record(r, c, "ok")
      <3>1. \A d \in Contents : Secured(p, d)'
        BY <2>3, <1>2, <1>7 DEF Secured, Settled
      <3> QED BY <3>1, <2>1, <2>3, <1>2, <1>3, <1>4, <1>9, RecordStep DEF IngestInv
    <2>4. CASE WriteDoc(r, c) /\ index' = [index EXCEPT ![<<p, text[r][c]>>] = c] /\ Record(r, c, "ok")
      <3>1. PICK t \in Contents : text[r][c] = t /\ Was(p, t)
        BY <2>4, <1>7
      <3>2. HasDocument(p, t)'
        BY <2>4, <3>1, NoneOutside DEF HasDocument, IngestInv, IndexTyped, Docs
      <3>3. \A d : Secured(p, d)'
        BY <3>1, <3>2, <1>2, OneOutcome
      <3> QED BY <3>3, <2>1, <2>4, <1>2, <1>3, <1>4, <1>9, RecordStep DEF IngestInv
    <2> QED BY <1>4, <2>2, <2>3, <2>4 DEF Tombstone, WriteDoc
  <1> QED BY <1>8, <1>9, <1>10, <1>11, <1>12 DEF IngestInv

LEMMA EndCommitStep ==
  ASSUME IngestInv, EndCommit PROVE IngestInv'
  <1>1. Kept
    BY KeptWhenUnchanged DEF EndCommit, repo
  <1>2. TreeTyped' /\ HistoryKept' /\ IndexTyped' /\ DocumentsTrue'
    BY TreeFrame, IndexFrame DEF EndCommit, repo, IngestInv
  <1>3. FailuresTyped'
    BY DEF EndCommit, IngestInv, FailuresTyped
  <1>4. /\ ThreadsTyped' /\ ItemsTrue' /\ StatusesTrue' /\ JobHeld'
        /\ \A q \in Threads : Provenance(known'[q])
    BY <1>1, ResetStep DEF EndCommit, repo, IngestInv, Threads
  <1>5. StoreTyped' /\ ManifestsTrue'
    BY <1>4, StoreFrame DEF EndCommit, repo, IngestInv
  <1>6. QueueTyped' /\ AcksTrue'
    <2> DEFINE failed == \E p \in JobFiles : FileFailed(p)
    <2>1. Answer(failed) /\ failed \in BOOLEAN /\ UNCHANGED <<log, tries>>
      BY DEF EndCommit, repo
    <2>2. \A p, c : ~failed /\ Brought(job, p, c) => statuses[p] = "ok"
      BY DEF Brought, JobFiles, FileFailed
    <2> HIDE DEF failed
    <2>3. \A p \in Paths, c \in Contents \ Empty : ~failed /\ Brought(job, p, c) => Secured(p, c)
      BY <2>2 DEF IngestInv, StatusesTrue
    <2>4. \A p \in Paths, c \in Contents \ Empty : Secured(p, c) => Secured(p, c)'
      BY <1>1, StillSecured
    <2> QED BY <2>1, <2>3, <2>4, <1>1, AnswerTyped DEF IngestInv
  <1> QED BY <1>2, <1>3, <1>4, <1>5, <1>6 DEF IngestInv

LEMMA EndCatchupStep ==
  ASSUME IngestInv, EndCatchup PROVE IngestInv'
  <1>1. Kept /\ TreeTyped' /\ HistoryKept' /\ IndexTyped' /\ DocumentsTrue' /\ QueueTyped' /\ AcksTrue'
    BY QuietFrame DEF EndCatchup
  <1>2. /\ ThreadsTyped' /\ ItemsTrue' /\ StatusesTrue' /\ JobHeld'
        /\ \A q \in Threads : Provenance(known'[q])
    BY <1>1, ResetStep DEF EndCatchup, repo, IngestInv, Threads
  <1>3. StoreTyped' /\ ManifestsTrue'
    BY <1>2, StoreFrame DEF EndCatchup, repo, IngestInv
  <1> QED BY <1>1, <1>2, <1>3 DEF IngestInv, EndCatchup, FailuresTyped

LEMMA StartedTyped == Started \in [Threads -> Places] /\ \A r \in Threads : Started[r] \in {"idle", "off"}
  BY DEF Started, Places

LEMMA CrashStep ==
  ASSUME IngestInv, Crash PROVE IngestInv'
  <1>1. Kept /\ TreeTyped' /\ HistoryKept' /\ IndexTyped' /\ DocumentsTrue' /\ QueueTyped' /\ AcksTrue'
    BY QuietFrame DEF Crash
  <1>2. FailuresTyped'
    BY IngestAssumption DEF Crash, Failure, IngestInv, FailuresTyped
  <1>3. ThreadsTyped'
    BY StartedTyped, QueueRead DEF Crash, IngestInv, ThreadsTyped, Manifests, NoManifest, NoItems,
                                   NoTexts, NoStatuses, Steps, repo
  <1>4. ItemsTrue'
    <2>1. \A r \in Threads, c \in Contents : item'[r][c] = "none"
      BY DEF Crash, NoItems
    <2> QED BY <2>1 DEF ItemsTrue, ItemTrue
  <1>5. StatusesTrue' /\ JobHeld'
    BY StartedTyped DEF Crash, StatusesTrue, NoStatuses, JobHeld, Threads
  <1>6. StoreTyped' /\ ManifestsTrue'
    <2>1. Provenance(NoManifest)'
      BY NoneOutside DEF Provenance, NoManifest
    <2>2. \A n : Provenance(n) => Provenance(n)'
      BY DEF Crash, repo, Provenance, Was
    <2>3. ManifestsTrue'
      BY <2>1, <2>2 DEF Crash, IngestInv, ManifestsTrue, Provenance, repo, Was
    <2> QED BY <2>3 DEF Crash, IngestInv, StoreTyped
  <1> QED BY <1>1, <1>2, <1>3, <1>4, <1>5, <1>6 DEF IngestInv

LEMMA StutterStep ==
  ASSUME IngestInv, UNCHANGED vars PROVE IngestInv'
  <1>1. Kept /\ TreeTyped' /\ HistoryKept' /\ IndexTyped' /\ DocumentsTrue' /\ QueueTyped' /\ AcksTrue'
    BY QuietFrame DEF vars, repo, queue
  <1>2. StoreTyped' /\ ManifestsTrue'
    BY StoreFrame DEF vars, store, IngestInv, ManifestsTrue
  <1>3. ThreadsTyped' /\ ItemsTrue' /\ StatusesTrue' /\ JobHeld'
    BY <1>1, QueueRead, ThreadsFrame DEF vars, thread, IngestInv
  <1> QED BY <1>1, <1>2, <1>3 DEF IngestInv, FailuresTyped, vars

-----------------------------------------------------------------------------
LEMMA InitHolds == Init => IngestInv
  <1> SUFFICES ASSUME Init PROVE IngestInv
    OBVIOUS
  <1>1. QueueTyped
    BY EmptySeq DEF Init, QueueTyped
  <1>2. TreeTyped /\ StoreTyped /\ IndexTyped
    BY DEF Init, TreeTyped, StoreTyped, IndexTyped, Manifests, NoManifest
  <1>3. ThreadsTyped
    BY StartedTyped DEF Init, ThreadsTyped, Manifests, NoManifest, NoItems, NoTexts, NoStatuses, Steps
  <1>4. FailuresTyped
    BY IngestAssumption DEF Init, FailuresTyped
  <1>5. DOMAIN log = {}
    BY DEF Init
  <1>6. \A p, c : ~Was(p, c)
    BY <1>5 DEF Was
  <1>7. HistoryKept /\ DocumentsTrue /\ AcksTrue
    BY <1>5, <1>6, NoneOutside DEF Init, HistoryKept, DocumentsTrue, AcksTrue, Docs
  <1>8. ManifestsTrue
    BY NoneOutside DEF Init, ManifestsTrue, Provenance, NoManifest
  <1>9. ItemsTrue
    BY DEF Init, ItemsTrue, ItemTrue, NoItems
  <1>10. StatusesTrue /\ JobHeld
    BY StartedTyped DEF Init, StatusesTrue, JobHeld, NoStatuses, Threads
  <1> QED BY <1>1, <1>2, <1>3, <1>4, <1>7, <1>8, <1>9, <1>10 DEF IngestInv

LEMMA StepHolds == IngestInv /\ [Next]_vars => IngestInv'
  <1> SUFFICES ASSUME IngestInv, [Next]_vars PROVE IngestInv'
    OBVIOUS
  <1>1. CASE GitCommit
    BY <1>1, GitCommitStep
  <1>2. ASSUME NEW r \in Threads, Refresh(r) PROVE IngestInv'
    BY <1>2, WalkStep, WriteStep, ReplaceStep, RaisesStep DEF Refresh
  <1>3. ASSUME NEW r \in Threads, Process(r) PROVE IngestInv'
    BY <1>3, ItemQuietStep, ItemIndexStep DEF Process
  <1>4. ASSUME NEW r \in Threads, LoadRaises(r) PROVE IngestInv'
    BY <1>4, RaisesStep
  <1>5. CASE CommitThread
    BY <1>2, <1>3, <1>4, <1>5, BeginCommitStep, LoadCommitStep, EndCommitStep DEF CommitThread, Threads
  <1>6. CASE CatchupThread
    BY <1>2, <1>3, <1>4, <1>6, BeginCatchupStep, LoadCatchupStep, EndCatchupStep
       DEF CatchupThread, Threads
  <1>7. CASE Crash
    BY <1>7, CrashStep
  <1>8. CASE UNCHANGED vars
    BY <1>8, StutterStep
  <1> QED BY <1>1, <1>5, <1>6, <1>7, <1>8 DEF Next

(* Every reachable state has the invariant the theorems below follow from. *)
THEOREM IngestSafety == Spec => []IngestInv
  BY InitHolds, StepHolds, PTL DEF Spec

(* The types of all the variables of the ingest service. *)
THEOREM IngestTyped == Spec => []TypeOK
  <1>1. ASSUME IngestInv PROVE TypeOK
    <2>1. \A i \in DOMAIN log : log[i] \in Changes
      BY <1>1, QueueRead, ElementOfSeq DEF IngestInv, QueueTyped
    <2>2. verdict \in [1..Len(log) -> Verdicts] /\ tries \in [1..Len(log) -> 0..MaxDeliver]
      BY <1>1, LenProperties DEF IngestInv, QueueTyped
    <2> QED BY <1>1, <2>1, <2>2 DEF TypeOK, IngestInv, TreeTyped, StoreTyped, IndexTyped,
                                    ThreadsTyped, FailuresTyped, Changes, Verdicts, Steps, Places
  <1> QED BY <1>1, IngestSafety, PTL

(* No interleaving of the two threads, no torn manifest, failure or crash makes
   process_commit's answer an ack for a file that is not searchable, if the file was never
   changed, deleted or copied. *)
THEOREM AckSafety == Spec => []AckMeansSearchable
  <1>1. ASSUME IngestInv PROVE AckMeansSearchable
    <2> SUFFICES ASSUME NEW i \in DOMAIN log, verdict[i] = "acked", NEW p \in DOMAIN log[i],
                        Settled(p, log[i][p]), log[i][p] \notin Empty
                 PROVE  HasDocument(p, log[i][p])
      BY DEF AckMeansSearchable
    <2>1. p \in Paths /\ log[i][p] \in Contents
      BY <1>1, QueueRead DEF IngestInv
    <2> QED BY <1>1, <2>1 DEF IngestInv, AcksTrue, Brought, Secured
  <1> QED BY <1>1, IngestSafety, PTL

(* remove_by_raw_path, which the ingest threads call for a file they do not find, takes
   nothing from the index but documents of a path that git has deleted. *)
THEOREM NothingVanishesSafety == Spec => NothingVanishes
  <1>1. ASSUME IngestInv, [Next]_vars
        PROVE  [\A d \in Docs : index[d] # None /\ index'[d] = None => d[1] \in gone]_vars
    <2> SUFFICES ASSUME NEW d \in Docs, index[d] # None, index'[d] = None PROVE d[1] \in gone
      OBVIOUS
    <2>1. ASSUME NEW r \in Threads, NEW c \in Contents, Tombstone(r, c) \/ WriteDoc(r, c)
          PROVE  d[1] \in gone
      <3>1. Kept /\ UNCHANGED gone
        BY <1>1, <2>1, ItemIndexStep DEF Tombstone, WriteDoc, repo
      <3> QED BY <3>1 DEF Kept, Docs
    <2>2. ~UNCHANGED index
      OBVIOUS
    <2>3. ASSUME NEW r \in Threads, Process(r) PROVE d[1] \in gone
      BY <2>1, <2>2, <2>3 DEF Process, SkipItem, FindMissing, Convert
    <2>4. ASSUME NEW r \in Threads PROVE ~Refresh(r) /\ ~LoadRaises(r)
      BY <2>2 DEF Refresh, Walk, Write, Replace, ReplaceRaises, LoadRaises, Raise
    <2>5. \A i \in DOMAIN log : ~BeginCommit(i)
      BY <2>2 DEF BeginCommit
    <2>6. ~LoadCommit /\ ~EndCommit /\ ~BeginCatchup /\ ~LoadCatchup /\ ~EndCatchup
      BY <2>2 DEF LoadCommit, EndCommit, BeginCatchup, LoadCatchup, EndCatchup
    <2>7. ~GitCommit /\ ~Crash /\ ~UNCHANGED vars
      BY <2>2 DEF GitCommit, Crash, vars
    <2> QED BY <1>1, <2>3, <2>4, <2>5, <2>6, <2>7 DEF Next, CommitThread, CatchupThread, Threads
  <1> QED BY <1>1, IngestSafety, PTL DEF Spec, NothingVanishes

-----------------------------------------------------------------------------
(* The commit thread alone, as when the periodic catch-up is switched off: it finds the
   temporary file as it left it, so the manifest stays whole and only grows. *)
Extended(m) == \A c \in Contents : manifest[c] # None => m[c] = manifest[c]

AloneInv ==
    /\ pc["catchup"] = "off"
    /\ manifest # Torn /\ registered \subseteq Known(manifest)
    /\ pc["commit"] \in {"walk", "reingest"} => known["commit"] = manifest
    /\ pc["commit"] = "write" => /\ tmp = Torn /\ handle["commit"] = "tmp"
                                 /\ Extended(known["commit"])
    /\ pc["commit"] = "replace" => tmp = known["commit"] /\ Extended(known["commit"])
    /\ DocumentsHaveProvenance

LEMMA AloneStep ==
  ASSUME Runners = {"commit"}, IngestInv, AloneInv, [Next]_vars PROVE AloneInv'
  <1> DEFINE r == "commit"
             StoreKept == UNCHANGED <<manifest, tmp, handle, registered>>
  <1>1. /\ r \in Threads /\ "catchup" \in Threads /\ r # "catchup"
        /\ pc \in [Threads -> Places] /\ known \in [Threads -> Manifests]
        /\ manifest \in Manifests /\ OnDisk = manifest
    BY DEF Threads, IngestInv, ThreadsTyped, StoreTyped, AloneInv, OnDisk
  <1>2. ASSUME StoreKept, UNCHANGED index, pc'["catchup"] = "off",
               pc'[r] \in {"walk", "reingest"} => known'[r] = manifest,
               pc'[r] \notin {"write", "replace"}
        PROVE  AloneInv'
    BY <1>2 DEF AloneInv, DocumentsHaveProvenance, OnDisk
  <1>3. CASE GitCommit
    BY <1>3 DEF GitCommit, store, thread, AloneInv, DocumentsHaveProvenance, OnDisk, Extended
  <1>4. ASSUME NEW i \in DOMAIN log, BeginCommit(i) PROVE AloneInv'
    BY <1>4, <1>2, <1>1 DEF BeginCommit, store, AloneInv
  <1>5. CASE Walk(r)
    <2>1. /\ manifest' = manifest /\ registered' = registered /\ index' = index
          /\ known'[r] = Refreshed(manifest) /\ pc'["catchup"] = "off"
      BY <1>1, <1>5 DEF Walk, AloneInv
    <2>2. Extended(Refreshed(manifest))
      BY DEF Extended, Refreshed
    <2>3. \/ pc'[r] = "load"
          \/ pc'[r] = "write" /\ tmp' = Torn /\ handle'[r] = "tmp"
      BY <1>1, <1>5 DEF Walk, IngestInv, StoreTyped
    <2> QED BY <2>1, <2>2, <2>3 DEF AloneInv, Extended, DocumentsHaveProvenance, OnDisk
  <1>6. CASE Write(r)
    <2>1. tmp' = known[r] /\ manifest' = manifest /\ registered' \subseteq Known(manifest)
          /\ known' = known /\ index' = index /\ pc' = [pc EXCEPT ![r] = "replace"]
      <3>1. pc[r] = "write" /\ tmp = Torn /\ handle[r] = "tmp"
        BY <1>6 DEF Write, AloneInv
      <3>2. tmp' \in Written(Torn, known[r])
        BY <1>6, <3>1 DEF Write
      <3>3. manifest' = manifest
        BY <1>6, <3>1 DEF Write
      <3>4. registered' \subseteq Known(manifest)
        BY <1>6, <3>3 DEF Write, AloneInv
      <3> QED BY <1>6, <3>2, <3>3, <3>4 DEF Write, Written, thread
    <2> QED BY <2>1, <1>1, <1>6 DEF Write, AloneInv, Extended, DocumentsHaveProvenance, OnDisk
  <1>7. CASE Replace(r)
    <2>1. manifest' = known[r] /\ registered' = registered \cup Known(known[r]) /\ index' = index
          /\ pc' = [pc EXCEPT ![r] = "load"] /\ Extended(known[r])
      BY <1>7 DEF Replace, AloneInv
    <2>2. known[r] # Torn /\ known[r] \in Manifests
      BY <1>1, ManifestsParse
    <2>3. pc'[r] = "load" /\ pc'["catchup"] = "off" /\ OnDisk' = known[r]
      BY <2>1, <2>2, <1>1 DEF AloneInv, OnDisk
    <2>4. registered' \subseteq Known(manifest')
      BY <2>1, <2>2 DEF AloneInv, Known, Extended, IngestInv, StoreTyped
    <2>5. DocumentsHaveProvenance'
      <3>1. SUFFICES ASSUME NEW d \in Docs, index[d] # None PROVE known[r][index[d]] = d[1]
        BY <2>1, <2>3 DEF DocumentsHaveProvenance
      <3>2. index[d] \in Contents /\ manifest[index[d]] = d[1]
        BY <3>1, <1>1 DEF AloneInv, DocumentsHaveProvenance, IngestInv, IndexTyped
      <3>3. d[1] # None
        BY NoneOutside DEF Docs
      <3> QED BY <2>1, <3>2, <3>3 DEF Extended
    <2> QED BY <2>1, <2>2, <2>3, <2>4, <2>5 DEF AloneInv
  <1>8. CASE ReplaceRaises(r) \/ LoadRaises(r)
    <2>1. StoreKept /\ UNCHANGED index /\ pc' = [pc EXCEPT ![r] = "idle"]
      BY <1>8 DEF ReplaceRaises, LoadRaises, Raise, store
    <2> QED BY <2>1, <1>1, <1>2 DEF AloneInv
  <1>9. CASE LoadCommit
    <2>1. StoreKept /\ UNCHANGED index
      BY <1>9 DEF LoadCommit, store
    <2>2. \/ pc' = [pc EXCEPT ![r] = "idle"]
          \/ pc' = [pc EXCEPT ![r] = "reingest"] /\ known' = [known EXCEPT ![r] = manifest]
      BY <1>9, <1>1 DEF LoadCommit
    <2> QED BY <2>1, <2>2, <1>1, <1>2 DEF AloneInv
  <1>10. ASSUME NEW c \in Contents, SkipItem(r, c) \/ FindMissing(r, c) \/ Convert(r, c)
         PROVE  AloneInv'
    <2>1. StoreKept /\ UNCHANGED <<index, pc, known>> /\ pc[r] = "reingest"
      BY <1>10 DEF SkipItem, FindMissing, Convert, store, AtItem
    <2> QED BY <2>1, <1>1, <1>2 DEF AloneInv
  <1>11. ASSUME NEW c \in Contents, Tombstone(r, c) \/ WriteDoc(r, c) PROVE AloneInv'
    <2>1. StoreKept /\ UNCHANGED <<pc, known>> /\ pc[r] = "reingest" /\ known[r] = manifest
      BY <1>11 DEF Tombstone, WriteDoc, store, AtItem, AloneInv
    <2>2. \A d \in Docs : index'[d] # None /\ index'[d] # index[d]
                            => index'[d] = c /\ d[1] = known[r][c]
      BY <1>11 DEF Tombstone, WriteDoc, IngestInv, IndexTyped, Docs
    <2>3. DocumentsHaveProvenance'
      BY <2>1, <2>2, <1>1 DEF AloneInv, DocumentsHaveProvenance, OnDisk
    <2> QED BY <2>1, <2>3 DEF AloneInv
  <1>12. CASE EndCommit
    <2>1. StoreKept /\ UNCHANGED index /\ pc' = [pc EXCEPT ![r] = "idle"]
      BY <1>12 DEF EndCommit, store
    <2> QED BY <2>1, <1>1, <1>2 DEF AloneInv
  <1>13. CASE CatchupThread
    BY <1>13, <1>1 DEF CatchupThread, BeginCatchup, Refresh, Walk, Write, Replace, ReplaceRaises,
         LoadCatchup, LoadRaises, Process, SkipItem, FindMissing, Tombstone, Convert, WriteDoc, AtItem,
         EndCatchup, AllDone, AloneInv
  <1>14. CASE Crash
    <2>1. pc' = Started /\ UNCHANGED <<manifest, registered, index>>
      BY <1>14 DEF Crash
    <2>2. Started["catchup"] = "off" /\ Started[r] = "idle"
      BY <1>1 DEF Started
    <2> QED BY <2>1, <2>2 DEF AloneInv, DocumentsHaveProvenance, OnDisk
  <1>15. CASE UNCHANGED vars
    BY <1>15 DEF vars, AloneInv, DocumentsHaveProvenance, OnDisk, Extended
  <1> QED BY <1>3, <1>4, <1>5, <1>6, <1>7, <1>8, <1>9, <1>10, <1>11, <1>12, <1>13, <1>14, <1>15
          DEF Next, CommitThread, Refresh, Process

LEMMA AloneInit == ASSUME Runners = {"commit"}, Init PROVE AloneInv
  <1>1. /\ Started["catchup"] = "off" /\ Started["commit"] = "idle"
        /\ NoManifest \in Manifests
    BY DEF Started, Threads, NoManifest, Manifests
  <1>2. \A d \in Docs : index[d] = None
    BY DEF Init
  <1> QED BY <1>1, <1>2, ManifestsParse DEF Init, AloneInv, DocumentsHaveProvenance

LEMMA AloneInvariance == ASSUME Runners = {"commit"} PROVE Spec => []AloneInv
  <1>1. Init => AloneInv
    BY AloneInit
  <1>2. IngestInv /\ AloneInv /\ [Next]_vars => AloneInv'
    BY AloneStep
  <1> QED BY <1>1, <1>2, IngestSafety, PTL DEF Spec

(* With the commit processor alone, restarts included, the provenance manifest is
   append-only, as source_is_present says of it. *)
THEOREM AloneRetention ==
  ASSUME Runners = {"commit"} PROVE Spec => []ProvenanceRetained
  <1>1. AloneInv => ProvenanceRetained
    BY DEF AloneInv, ProvenanceRetained
  <1> QED BY <1>1, AloneInvariance, PTL

(* And the raw_sha256 of every document is registered in it under the document's path. *)
THEOREM AloneProvenance ==
  ASSUME Runners = {"commit"} PROVE Spec => []DocumentsHaveProvenance
  <1>1. AloneInv => DocumentsHaveProvenance
    BY DEF AloneInv
  <1> QED BY <1>1, AloneInvariance, PTL

-----------------------------------------------------------------------------
(* The commit thread alone, no content in two places and nothing failed yet: the walk
   registers something for every file of the commit that is still there, and each entry
   on the work list ends well. *)
WasAllowed == \A p \in Paths, c \in Contents : Was(p, c) => MayHold(p, c)
Due == JobFiles \ (gone \cup Sidecars)
Registers(m) == \A p \in Due : \E c \in Contents : m[c] = p

LettersInv ==
    /\ NoSpuriousDeadLetter
    /\ \A p \in Paths : statuses[p] # "failed"
    /\ pc["commit"] \in {"write", "replace"} => Registers(known["commit"])
    /\ pc["commit"] = "load" => Registers(manifest)
    /\ pc["commit"] = "reingest" =>
         \A p \in Due : \E c \in Contents :
            /\ known["commit"][c] = p
            /\ item["commit"][c] \in {"skip", "todo", "gone", "converted"} \/ statuses[p] = "ok"

LEMMA WasAllowedKept ==
  ASSUME IngestInv, WasAllowed, [Next]_vars PROVE WasAllowed'
  <1>1. CASE GitCommit
    <2>1. PICK tree \in [Paths -> Contents \cup {None}] :
            /\ \A p \in Paths : tree[p] # None => MayHold(p, tree[p])
            /\ LET changed == {p \in Paths : tree[p] # raw[p] /\ tree[p] # None}
               IN  log' = Append(log, [p \in changed |-> tree[p]])
      BY <1>1 DEF GitCommit
    <2> DEFINE changed == {p \in Paths : tree[p] # raw[p] /\ tree[p] # None}
               change == [p \in changed |-> tree[p]]
    <2>2. /\ log \in Seq(Changes) /\ Len(log) \in Nat /\ DOMAIN log = 1..Len(log)
          /\ log' = Append(log, change)
      BY <2>1, QueueRead DEF IngestInv, QueueTyped
    <2>3. \A p \in DOMAIN change : MayHold(p, change[p])
      BY <2>1
    <2> HIDE DEF change, changed
    <2>4. \A i \in DOMAIN log' : (i \in DOMAIN log /\ log'[i] = log[i]) \/ log'[i] = change
      BY <2>2
    <2>5. ASSUME NEW p \in Paths, NEW c \in Contents, Was(p, c)' PROVE MayHold(p, c)
      <3>1. PICK i \in DOMAIN log' : p \in DOMAIN log'[i] /\ log'[i][p] = c
        BY <2>5 DEF Was
      <3>2. CASE i \in DOMAIN log /\ log'[i] = log[i]
        BY <3>1, <3>2 DEF WasAllowed, Was
      <3>3. CASE log'[i] = change
        BY <3>1, <3>3, <2>3
      <3> QED BY <2>4, <3>2, <3>3
    <2> QED BY <2>5 DEF WasAllowed
  <1>2. CASE ~GitCommit
    <2>1. UNCHANGED log
      BY <1>2 DEF Next, CommitThread, CatchupThread, Refresh, Process, BeginCommit, BeginCatchup,
           Walk, Write, Replace, ReplaceRaises, LoadCommit, LoadCatchup, LoadRaises, Raise, SkipItem,
           FindMissing, Tombstone, Convert, WriteDoc, EndCommit, EndCatchup, Crash, repo, vars
    <2> QED BY <2>1 DEF WasAllowed, Was
  <1> QED BY <1>1, <1>2

(* What the walk does for a file that is due. *)
LEMMA WalkRegisters ==
  ASSUME IngestInv, WasAllowed, job # 0,
         \A c \in Contents, p, q \in Paths : MayHold(p, c) /\ MayHold(q, c) => p = q,
         NEW m \in Manifests, Provenance(m)
  PROVE  Registers(Refreshed(m))
  <1> SUFFICES ASSUME NEW p \in Due PROVE \E c \in Contents : Refreshed(m)[c] = p
    BY DEF Registers
  <1>1. p \in JobFiles /\ p \notin gone /\ p \notin Sidecars /\ job \in DOMAIN log
    BY QueueRead DEF Due, IngestInv, ThreadsTyped
  <1>2. p \in Paths /\ log[job][p] \in Contents /\ Was(p, log[job][p])
    BY <1>1, QueueRead DEF IngestInv, JobFiles, Was
  <1>3. raw[p] # None /\ raw[p] \in Contents
    BY <1>1, <1>2 DEF IngestInv, HistoryKept, TreeTyped
  <1>4. PICK c \in Contents : raw[p] = c
    BY <1>3
  <1>5. \A q \in Paths : Was(q, c) => q = p
    BY <1>2, <1>4 DEF WasAllowed, IngestInv, HistoryKept
  <1>6. p \in Holders(c)
    BY <1>1, <1>2, <1>4 DEF Holders
  <1>7. Refreshed(m) \in Manifests /\ Provenance(Refreshed(m))
    BY RefreshedProvenance DEF IngestInv
  <1>8. Refreshed(m)[c] \in Paths
    <2>1. FirstHolder(c) \in Holders(c)
      <3>1. Holders(c) \in SUBSET Nat
        BY IngestAssumption DEF Holders
      <3>2. \E q \in Holders(c) : \A o \in Holders(c) : q <= o
        BY <1>6, <3>1, LeastExists
      <3> QED BY <3>2 DEF FirstHolder
    <2> QED BY <1>6, <2>1 DEF Refreshed, Manifests, Holders
  <1> QED BY <1>5, <1>7, <1>8 DEF Provenance

LEMMA LettersStep ==
  ASSUME Runners = {"commit"}, IngestInv, AloneInv, WasAllowed, LettersInv, [Next]_vars,
         \A c \in Contents, p, q \in Paths : MayHold(p, c) /\ MayHold(q, c) => p = q,
         failures = 0, failures' = 0
  PROVE  LettersInv'
  <1> DEFINE r == "commit"
  <1>1. /\ r \in Threads /\ "catchup" \in Threads /\ r # "catchup"
        /\ pc \in [Threads -> Places] /\ known \in [Threads -> Manifests]
        /\ item \in [Threads -> [Contents -> Steps]]
        /\ statuses \in [Paths -> {"none", "ok", "failed"}]
        /\ manifest \in Manifests /\ OnDisk = manifest
        /\ DOMAIN verdict = DOMAIN log /\ DOMAIN log = 1..Len(log) /\ Len(log) \in Nat
        /\ job \in 0..Len(log)
    BY QueueRead DEF Threads, IngestInv, ThreadsTyped, StoreTyped, AloneInv, OnDisk
  <1>2. pc[r] \in {"walk", "write", "replace", "load", "reingest"} => job # 0 /\ Due \subseteq Paths
    BY <1>1, QueueRead DEF Due, JobFiles, IngestInv, JobHeld
  <1>3. CASE GitCommit
    <2>1. /\ UNCHANGED <<manifest, pc, job, known, item, statuses>>
          /\ gone \subseteq gone' /\ verdict' = Append(verdict, "queued")
          /\ \E change : log' = Append(log, change)
      BY <1>3 DEF GitCommit, store, thread
    <2>2. /\ \A i \in DOMAIN log : log'[i] = log[i] /\ verdict'[i] = verdict[i]
          /\ \A i \in DOMAIN log' : i \in DOMAIN log \/ verdict'[i] = "queued"
      BY <2>1, <1>1, AppendProperties DEF IngestInv, QueueTyped
    <2>3. NoSpuriousDeadLetter'
      <3>1. SUFFICES ASSUME NEW i \in DOMAIN log', verdict'[i] = "dead"
            PROVE (DOMAIN log[i] \cap (gone \cup Sidecars))' # {}
        BY DEF NoSpuriousDeadLetter
      <3>2. i \in DOMAIN log /\ verdict[i] = "dead" /\ log'[i] = log[i]
        BY <2>2, <3>1
      <3>3. DOMAIN log[i] \cap (gone \cup Sidecars) # {}
        BY <3>2 DEF LettersInv, NoSpuriousDeadLetter
      <3> QED BY <2>1, <3>2, <3>3
    <2>4. pc[r] \in {"write", "replace", "load", "reingest"} => Due' \subseteq Due
      BY <2>1, <2>2, <1>1 DEF Due, JobFiles, IngestInv, JobHeld
    <2> QED BY <2>1, <2>3, <2>4 DEF LettersInv, Registers
  <1>4. ASSUME UNCHANGED <<log, gone, verdict, job, statuses>>,
               pc'[r] \in {"write", "replace"}, Registers(known'[r])
        PROVE  LettersInv'
    BY <1>4 DEF LettersInv, NoSpuriousDeadLetter, Registers, Due, JobFiles
  <1>21. ASSUME UNCHANGED <<log, gone, verdict, job, statuses>>,
                pc'[r] = "load", Registers(manifest')
         PROVE  LettersInv'
    BY <1>21 DEF LettersInv, NoSpuriousDeadLetter, Registers, Due, JobFiles
  <1>5. ASSUME UNCHANGED <<log, gone>>, NoSpuriousDeadLetter', statuses' = NoStatuses, pc'[r] = "idle"
        PROVE  LettersInv'
    BY <1>5 DEF LettersInv, NoStatuses
  <1>6. ASSUME NEW i \in DOMAIN log, BeginCommit(i) PROVE LettersInv'
    <2>1. pc'[r] = "walk" /\ UNCHANGED <<log, gone, verdict, statuses>>
      BY <1>1, <1>6 DEF BeginCommit, repo
    <2> QED BY <2>1 DEF LettersInv, NoSpuriousDeadLetter
  <1>7. CASE Walk(r)
    <2>1. known[r] \in Manifests /\ Provenance(known[r]) /\ known[r] = manifest
      BY <1>1, <1>7 DEF IngestInv, ManifestsTrue, Walk, AloneInv
    <2>2. Registers(Refreshed(known[r]))
      BY <1>2, <1>7, <2>1, WalkRegisters DEF Walk
    <2>3. /\ known'[r] = Refreshed(known[r]) /\ UNCHANGED manifest
          /\ UNCHANGED <<log, gone, verdict, job, statuses>>
      BY <1>1, <1>7 DEF Walk, repo, queue
    <2>4. CASE Refreshed(known[r]) = known[r]
      <3>1. pc'[r] = "load"
        BY <1>1, <1>7, <2>4 DEF Walk
      <3>2. Registers(manifest')
        BY <2>1, <2>2, <2>3, <2>4
      <3> QED BY <1>21, <2>3, <3>1, <3>2
    <2>5. CASE Refreshed(known[r]) # known[r]
      <3>1. pc'[r] = "write"
        BY <1>1, <1>7, <2>5 DEF Walk
      <3>2. Registers(known'[r])
        BY <2>2, <2>3
      <3> QED BY <1>4, <2>3, <3>1, <3>2
    <2> QED BY <2>4, <2>5
  <1>8. CASE Write(r)
    <2>1. pc'[r] = "replace" /\ known' = known /\ UNCHANGED <<log, gone, verdict, job, statuses>>
          /\ Registers(known[r])
      BY <1>1, <1>8 DEF Write, repo, queue, thread, LettersInv
    <2> QED BY <1>4, <2>1
  <1>9. CASE Replace(r)
    <2>1. pc'[r] = "load" /\ manifest' = known[r] /\ UNCHANGED <<log, gone, verdict, job, statuses>>
          /\ Registers(known[r])
      BY <1>1, <1>9 DEF Replace, repo, queue, thread, LettersInv, AloneInv
    <2> QED BY <1>21, <2>1
  <1>10. ~ReplaceRaises(r) /\ ~LoadRaises(r) /\ ~Crash
    <2>1. pc[r] = "replace" => tmp # None
      BY <1>1, ManifestsParse DEF AloneInv
    <2> QED BY <2>1 DEF ReplaceRaises, LoadRaises, Crash, Failure
  <1>11. CASE LoadCommit
    <2>1. CASE JobFiles = {}
      <3>1. verdict' = [verdict EXCEPT ![job] = "acked"] /\ statuses' = NoStatuses
            /\ pc'[r] = "idle" /\ UNCHANGED <<log, gone>>
        BY <1>1, <1>11, <2>1 DEF LoadCommit, Answer, Reset, repo
      <3>2. NoSpuriousDeadLetter'
        BY <1>1, <3>1 DEF LettersInv, NoSpuriousDeadLetter
      <3> QED BY <1>5, <3>1, <3>2
    <2>2. CASE JobFiles # {}
      <3>1. pc[r] = "load" /\ UNCHANGED <<log, gone, verdict, job, statuses>>
        BY <1>11, <2>2 DEF LoadCommit, repo
      <3>4. pc'[r] = "reingest" /\ known'[r] = manifest
        BY <1>1, <1>11, <2>2 DEF LoadCommit
      <3>5. item'[r] = WorkList(manifest, JobFiles)
        BY <1>1, <1>11, <2>2 DEF LoadCommit
      <3>3. Registers(manifest)
        BY <3>1 DEF LettersInv
      <3>2. ASSUME NEW p \in Due
            PROVE  \E c \in Contents : known'[r][c] = p /\ item'[r][c] \in {"skip", "todo"}
        BY <3>3, <3>4, <3>5 DEF Registers, WorkList, Due
      <3> QED BY <3>1, <3>2, <3>4 DEF LettersInv, NoSpuriousDeadLetter, Due, JobFiles
    <2> QED BY <2>1, <2>2
  <1>12. ASSUME NEW c \in Contents, NEW to \in {"gone", "converted"},
                pc[r] = "reingest", item' = [item EXCEPT ![r][c] = to],
                UNCHANGED <<log, gone, verdict, job, pc, known, statuses>>
         PROVE  LettersInv'
    <2>1. \A d \in Contents : item'[r][d] = IF d = c THEN to ELSE item[r][d]
      BY <1>1, <1>12
    <2> QED BY <1>12, <2>1 DEF LettersInv, NoSpuriousDeadLetter, Due, JobFiles
  <1>13. ASSUME NEW c \in Contents, pc[r] = "reingest", Record(r, c, "ok"),
                UNCHANGED <<log, gone, verdict, job, pc, known>>
         PROVE  LettersInv'
    <2>1. \A d \in Contents : d # c => item'[r][d] = item[r][d]
      BY <1>1, <1>13 DEF Record
    <2>2. \A p \in Paths : statuses'[p] = IF p = known[r][c] THEN "ok" ELSE statuses[p]
      BY <1>1, <1>13 DEF Record
    <2>3. ASSUME NEW p \in Due
          PROVE  \E d \in Contents :
                    /\ known[r][d] = p
                    /\ item'[r][d] \in {"skip", "todo", "gone", "converted"} \/ statuses'[p] = "ok"
      <3>1. PICK d \in Contents :
               /\ known[r][d] = p
               /\ item[r][d] \in {"skip", "todo", "gone", "converted"} \/ statuses[p] = "ok"
        BY <1>13, <2>3 DEF LettersInv
      <3>2. p \in Paths
        BY <1>2, <1>13
      <3> QED BY <2>1, <2>2, <3>1, <3>2
    <2> QED BY <1>13, <2>2, <2>3 DEF LettersInv, NoSpuriousDeadLetter, Due, JobFiles
  <1>14. ASSUME NEW c \in Contents, SkipItem(r, c) \/ Tombstone(r, c) PROVE LettersInv'
    BY <1>13, <1>14 DEF SkipItem, Tombstone, AtItem, repo, queue
  <1>15. ASSUME NEW c \in Contents, FindMissing(r, c) PROVE LettersInv'
    BY <1>12, <1>15 DEF FindMissing, AtItem, repo, queue
  <1>16. ASSUME NEW c \in Contents, Convert(r, c) PROVE LettersInv'
    <2>1. ~Failure
      BY DEF Failure
    <2> QED BY <1>12, <1>13, <1>16, <2>1 DEF Convert, AtItem, repo, queue
  <1>17. ASSUME NEW c \in Contents, WriteDoc(r, c) PROVE LettersInv'
    <2>1. ~Failure
      BY DEF Failure
    <2> QED BY <1>13, <1>17, <2>1 DEF WriteDoc, AtItem, repo, queue
  <1>18. CASE EndCommit
    <2>1. /\ Answer(\E p \in JobFiles : FileFailed(p)) /\ statuses' = NoStatuses
          /\ pc'[r] = "idle" /\ UNCHANGED <<log, gone>> /\ pc[r] = "reingest"
          /\ \A c \in Contents : item[r][c] \in {"none", "done"}
      BY <1>1, <1>18 DEF EndCommit, Reset, repo, AllDone
    <2>2. \A p \in Due : ~FileFailed(p)
      BY <2>1 DEF LettersInv, FileFailed
    <2>3. NoSpuriousDeadLetter'
      <3>1. SUFFICES ASSUME NEW i \in DOMAIN log, verdict'[i] = "dead"
            PROVE DOMAIN log[i] \cap (gone \cup Sidecars) # {}
        BY <2>1 DEF NoSpuriousDeadLetter
      <3>2. CASE i # job
        BY <1>1, <2>1, <3>1, <3>2 DEF LettersInv, NoSpuriousDeadLetter, Answer
      <3>3. CASE i = job
        <4>1. \E p \in JobFiles : FileFailed(p)
          BY <1>1, <2>1, <3>1, <3>3 DEF Answer
        <4> QED BY <2>2, <3>3, <4>1 DEF Due, JobFiles
      <3> QED BY <3>2, <3>3
    <2> QED BY <1>5, <2>1, <2>3
  <1>19. CASE CatchupThread
    BY <1>19, <1>1 DEF CatchupThread, BeginCatchup, Refresh, Walk, Write, Replace, ReplaceRaises,
         LoadCatchup, LoadRaises, Process, SkipItem, FindMissing, Tombstone, Convert, WriteDoc, AtItem,
         EndCatchup, AllDone, AloneInv
  <1>20. CASE UNCHANGED vars
    BY <1>20 DEF vars, LettersInv, NoSpuriousDeadLetter, Registers, Due, JobFiles
  <1> QED BY <1>3, <1>6, <1>7, <1>8, <1>9, <1>10, <1>11, <1>14, <1>15, <1>16, <1>17, <1>18, <1>19,
             <1>20 DEF Next, CommitThread, Refresh, Process

LettersWhileWhole == failures = 0 => LettersInv

LEMMA FailuresCounted ==
  ASSUME IngestInv, [Next]_vars, failures' = 0 PROVE failures = 0
  <1>1. failures' = failures \/ failures' = failures + 1
    BY DEF Next, CommitThread, CatchupThread, Refresh, Process, GitCommit, BeginCommit, BeginCatchup,
         Walk, Write, Replace, ReplaceRaises, LoadCommit, LoadCatchup, LoadRaises, SkipItem,
         FindMissing, Tombstone, Convert, WriteDoc, EndCommit, EndCatchup, Crash, Failure, NoFailure,
         vars
  <1>2. failures \in Nat
    BY IngestAssumption DEF IngestInv, FailuresTyped
  <1> QED BY <1>1, <1>2

(* With the commit processor alone and no content in two places, a commit is given up for
   dead, when nothing has failed, only over a file that was deleted or a sidecar. *)
THEOREM LettersSafety ==
  ASSUME Runners = {"commit"},
         \A c \in Contents, p, q \in Paths : MayHold(p, c) /\ MayHold(q, c) => p = q
  PROVE  Spec => []NoSpuriousDeadLetter
  <1>1. Init => WasAllowed /\ LettersWhileWhole
    <2> SUFFICES ASSUME Init PROVE WasAllowed /\ LettersInv
      BY DEF LettersWhileWhole
    <2>1. DOMAIN log = {} /\ pc["commit"] \in {"idle", "off"} /\ statuses = NoStatuses
      BY StartedTyped DEF Init, Threads
    <2> QED BY <2>1 DEF WasAllowed, Was, LettersInv, NoSpuriousDeadLetter, NoStatuses
  <1>2. IngestInv /\ AloneInv /\ WasAllowed /\ LettersWhileWhole /\ [Next]_vars
        => WasAllowed' /\ LettersWhileWhole'
    <2> SUFFICES ASSUME IngestInv, AloneInv, WasAllowed, LettersWhileWhole, [Next]_vars
                 PROVE  WasAllowed' /\ LettersWhileWhole'
      OBVIOUS
    <2>1. ASSUME failures' = 0 PROVE LettersInv'
      <3>1. failures = 0
        BY <2>1, FailuresCounted
      <3> QED BY <2>1, <3>1, LettersStep DEF LettersWhileWhole
    <2> QED BY <2>1, WasAllowedKept DEF LettersWhileWhole
  <1>3. LettersWhileWhole => NoSpuriousDeadLetter
    BY DEF LettersWhileWhole, LettersInv, NoSpuriousDeadLetter
  <1>4. Spec => []AloneInv
    BY AloneInvariance
  <1> QED BY <1>1, <1>2, <1>3, <1>4, IngestSafety, PTL DEF Spec

-----------------------------------------------------------------------------
(* The refinement of the archive.  Beside IngestInv it takes two facts: the commit in
   hand is one that was tried and not yet answered, and no text was ever extracted from
   contents without any. *)

JobOpen == job # 0 => verdict[job] = "queued" /\ tries[job] > 0
TextsFull == \A r \in Threads, c \in Contents : text[r][c] \notin Empty

ArchiveInv == JobOpen /\ TextsFull

LEMMA EmptyTexts == NoTexts \in [Contents -> Contents \cup {None}] /\ \A c \in Contents : NoTexts[c] \notin Empty
  BY NoneOutside, IngestAssumption DEF NoTexts

LEMMA ResetArchive ==
  ASSUME IngestInv, ArchiveInv, NEW r \in Threads, Reset(r), UNCHANGED tries,
         r # "commit" => UNCHANGED verdict
  PROVE  ArchiveInv'
  <1>1. TextsFull'
    BY EmptyTexts DEF Reset, ArchiveInv, TextsFull, IngestInv, ThreadsTyped
  <1>2. JobOpen'
    BY DEF Reset, ArchiveInv, JobOpen
  <1> QED BY <1>1, <1>2 DEF ArchiveInv

LEMMA ArchiveQuiet ==
  ASSUME ArchiveInv, UNCHANGED <<job, verdict, tries, text>>
  PROVE  ArchiveInv'
  BY DEF ArchiveInv, JobOpen, TextsFull

LEMMA ArchiveInvStep ==
  ASSUME IngestInv, ArchiveInv, [Next]_vars PROVE ArchiveInv'
  <1>1. CASE GitCommit
    <2>1. /\ verdict' = Append(verdict, "queued") /\ tries' = Append(tries, 0)
          /\ UNCHANGED <<job, text>>
      BY <1>1 DEF GitCommit, thread
    <2>2. job # 0 => verdict'[job] = verdict[job] /\ tries'[job] = tries[job]
      <3>1. job \in 0..Len(log) /\ Len(log) \in Nat
        BY QueueRead DEF IngestInv, ThreadsTyped
      <3> QED BY <2>1, <3>1, AppendProperties DEF IngestInv, QueueTyped, Verdicts
    <2> QED BY <2>1, <2>2 DEF ArchiveInv, JobOpen, TextsFull
  <1>2. ASSUME NEW i \in DOMAIN log, BeginCommit(i) PROVE ArchiveInv'
    <2>1. /\ job' = i /\ verdict'[i] = "queued" /\ UNCHANGED text
          /\ tries' = [tries EXCEPT ![i] = @ + 1]
      BY <1>2 DEF BeginCommit, Deliverable
    <2>2. i \in DOMAIN tries /\ tries[i] \in Nat
      BY QueueRead DEF IngestInv
    <2> QED BY <2>1, <2>2 DEF ArchiveInv, JobOpen, TextsFull
  <1>3. ASSUME NEW r \in Threads, ReplaceRaises(r) \/ LoadRaises(r) PROVE ArchiveInv'
    BY <1>3, ResetArchive DEF ReplaceRaises, LoadRaises, Raise
  <1>4. ASSUME NEW r \in Threads, Walk(r) \/ Write(r) \/ Replace(r) PROVE ArchiveInv'
    BY <1>4, ArchiveQuiet DEF Walk, Write, Replace, queue, thread
  <1>5. CASE LoadCommit
    BY <1>5, ResetArchive, ArchiveQuiet DEF LoadCommit, Threads
  <1>6. CASE LoadCatchup
    BY <1>6, ResetArchive, ArchiveQuiet DEF LoadCatchup, Threads, queue
  <1>7. CASE EndCommit \/ EndCatchup
    BY <1>7, ResetArchive DEF EndCommit, EndCatchup, Threads, queue
  <1>8. ASSUME NEW r \in Threads, NEW c \in Contents,
               SkipItem(r, c) \/ FindMissing(r, c) \/ Tombstone(r, c)
        PROVE  ArchiveInv'
    BY <1>8, ArchiveQuiet DEF SkipItem, FindMissing, Tombstone, queue
  <1>9. ASSUME NEW r \in Threads, NEW c \in Contents, Convert(r, c) \/ WriteDoc(r, c)
        PROVE  ArchiveInv'
    <2>1. UNCHANGED <<job, verdict, tries>>
      BY <1>9 DEF Convert, WriteDoc, queue
    <2>2. \/ UNCHANGED text
          \/ \E t : t \notin Empty /\ text' = [text EXCEPT ![r][c] = t]
      BY <1>9, NoneOutside, IngestAssumption DEF Convert, WriteDoc
    <2>3. TextsFull'
      BY <2>2 DEF ArchiveInv, TextsFull, IngestInv, ThreadsTyped
    <2> QED BY <2>1, <2>3 DEF ArchiveInv, JobOpen
  <1>10. CASE BeginCatchup
    BY <1>10, ArchiveQuiet DEF BeginCatchup, queue
  <1>11. CASE Crash
    BY <1>11, EmptyTexts DEF Crash, ArchiveInv, JobOpen, TextsFull
  <1>12. CASE UNCHANGED vars
    BY <1>12, ArchiveQuiet DEF vars
  <1> QED BY <1>1, <1>2, <1>3, <1>4, <1>5, <1>6, <1>7, <1>8, <1>9, <1>10, <1>11, <1>12
          DEF Next, CommitThread, CatchupThread, Refresh, Process, Threads

LEMMA InitArchiveInv == Init => ArchiveInv
  BY EmptyTexts DEF Init, ArchiveInv, JobOpen, TextsFull

(* Answering the commit in hand. *)
LEMMA AnswerRefines ==
  ASSUME IngestInv, ArchiveInv, IngestInv', job # 0, NEW failed \in BOOLEAN, Answer(failed),
         UNCHANGED <<repo, tries, index>>
  PROVE  [Archive!ArchiveNext]_(Archive!archive)
  <1>1. job \in DOMAIN log /\ tries[job] \in 0..MaxDeliver /\ MaxDeliver \in Nat \ {0}
        /\ job \in DOMAIN verdict
    BY QueueRead, IngestAssumption DEF IngestInv, ThreadsTyped
  <1>2. verdict[job] = "queued" /\ tries[job] > 0
    BY DEF ArchiveInv, JobOpen
  <1>3. UNCHANGED <<log, gone, tries, DocsHeld>>
    BY DEF repo, DocsHeld
  <1>4. CASE ~failed
    <2>1. verdict' = [verdict EXCEPT ![job] = "acked"]
      BY <1>4 DEF Answer
    <2>2. ASSUME NEW p \in DOMAIN log[job], log[job][p] \notin Empty,
                 Archive!Undisturbed(p, log[job][p])
          PROVE  <<p, log[job][p]>> \in DocsHeld
      <3>1. PICK i \in DOMAIN log : i = job
        BY <1>1
      <3>2. PICK q \in Paths, c \in Contents \ Empty : q = p /\ c = log[i][q]
        BY <3>1, <1>1, <2>2, QueueRead DEF IngestInv
      <3>3. Settled(q, c)
        BY <2>2, <3>1, <3>2 DEF Archive!Undisturbed, Settled
      <3>4. Settled(q, c)'
        BY <3>3, <1>3 DEF Settled
      <3>5. verdict'[i] = "acked" /\ AcksTrue' /\ Brought(i, q, c)'
        BY <1>1, <1>3, <2>1, <2>2, <3>1, <3>2 DEF IngestInv, Brought
      <3>6. Secured(q, c)'
        BY <1>3, <3>5 DEF AcksTrue
      <3>7. HasDocument(q, c)
        BY <3>4, <3>6 DEF Secured, HasDocument
      <3> QED BY <3>1, <3>2, <3>7 DEF HasDocument, DocsHeld, Docs
    <2>3. Archive!Ack(job)
      BY <1>2, <1>3, <2>1, <2>2 DEF Archive!Ack
    <2> QED BY <1>1, <2>3 DEF Archive!ArchiveNext
  <1>5. CASE failed /\ tries[job] >= MaxDeliver
    <2>1. verdict' = [verdict EXCEPT ![job] = "dead"]
      BY <1>5 DEF Answer
    <2>3. tries[job] = MaxDeliver
      BY <1>1, <1>5
    <2>2. Archive!GiveUp(job)
      BY <1>2, <1>3, <2>1, <2>3 DEF Archive!GiveUp
    <2> QED BY <1>1, <2>2 DEF Archive!ArchiveNext
  <1>6. CASE failed /\ ~(tries[job] >= MaxDeliver)
    <2>1. verdict' = [verdict EXCEPT ![job] = "queued"]
      BY <1>6 DEF Answer
    <2>2. verdict' = verdict
      BY <1>1, <1>2, <2>1 DEF IngestInv, QueueTyped
    <2> QED BY <1>3, <2>2 DEF Archive!archive
  <1> QED BY <1>4, <1>5, <1>6

(* A step that touches neither the repository, the answers nor the index. *)
LEMMA ArchiveStutters ==
  ASSUME UNCHANGED <<log, gone, verdict, tries, index>>
  PROVE  UNCHANGED Archive!archive
  BY DEF Archive!archive, DocsHeld

LEMMA RaiseRefines ==
  ASSUME IngestInv, ArchiveInv, IngestInv', NEW r \in Threads, pc[r] \in {"replace", "load"}, Raise(r)
  PROVE  [Archive!ArchiveNext]_(Archive!archive)
  <1>1. CASE r = "commit"
    <2>1. job # 0
      BY <1>1 DEF IngestInv, JobHeld
    <2> QED BY <1>1, <2>1, AnswerRefines DEF Raise
  <1>2. CASE r # "commit"
    BY <1>2, ArchiveStutters DEF Raise, repo
  <1> QED BY <1>1, <1>2

LEMMA GitCommitRefines ==
  ASSUME IngestInv, GitCommit
  PROVE  Archive!Publish
  <1>1. PICK tree \in [Paths -> Contents \cup {None}] :
          /\ LET changed == {p \in Paths : tree[p] # raw[p] /\ tree[p] # None}
             IN  log' = Append(log, [p \in changed |-> tree[p]])
          /\ gone' = gone \cup {p \in Paths : raw[p] # None /\ tree[p] = None}
    BY DEF GitCommit
  <1> DEFINE changed == {p \in Paths : tree[p] # raw[p] /\ tree[p] # None}
             lost == {p \in Paths : raw[p] # None /\ tree[p] = None}
  <1>2. [p \in changed |-> tree[p]] \in Archive!Commits
    <2>1. \A p \in changed : tree[p] \in Contents
      OBVIOUS
    <2>2. changed \in SUBSET Paths
      OBVIOUS
    <2> HIDE DEF changed
    <2>3. [p \in changed |-> tree[p]] \in [changed -> Contents]
      BY <2>1
    <2> QED BY <2>2, <2>3 DEF Archive!Commits
  <1>3. \A p \in lost : \E c \in Contents : Archive!Put(p, c)
    BY DEF IngestInv, TreeTyped, HistoryKept, Was, Archive!Put
  <1>4. lost \in SUBSET {p \in Paths : \E c \in Contents : Archive!Put(p, c)}
    BY <1>3
  <1>5. verdict' = Append(verdict, "queued") /\ tries' = Append(tries, 0) /\ UNCHANGED DocsHeld
    BY DEF GitCommit, DocsHeld
  <1> QED BY <1>1, <1>2, <1>4, <1>5 DEF Archive!Publish

LEMMA TombstoneRefines ==
  ASSUME IngestInv, NEW r \in Threads, NEW c \in Contents, Tombstone(r, c)
  PROVE  [Archive!ArchiveNext]_(Archive!archive)
  <1>1. UNCHANGED <<log, gone, verdict, tries>> /\ item[r][c] = "gone"
    BY DEF Tombstone, AtItem, repo, queue
  <1>2. CASE UNCHANGED index
    BY <1>1, <1>2, ArchiveStutters
  <1>3. CASE index' = [d \in Docs |-> IF d[1] = known[r][c] THEN None ELSE index[d]]
    <2>1. known[r][c] \in Paths /\ text[r][c] \in Contents \cup {None} /\ item[r][c] \in Steps
      BY <1>1 DEF IngestInv, ThreadsTyped, Manifests, ItemsTrue
    <2>2. PICK p \in Paths : p = known[r][c]
      BY <2>1
    <2>3. p \in gone
      <3>1. ItemTrue("gone", p, text[r][c], c)
        BY <1>1, <2>1, <2>2 DEF IngestInv, ItemsTrue
      <3> QED BY <3>1 DEF ItemTrue
    <2>4. DocsHeld' = {d \in DocsHeld : d[1] # p}
      BY <1>3, <2>2 DEF DocsHeld
    <2>5. Archive!Expunge(p)
      BY <1>1, <2>3, <2>4 DEF Archive!Expunge
    <2> QED BY <2>5 DEF Archive!ArchiveNext
  <1> QED BY <1>2, <1>3 DEF Tombstone

LEMMA WriteDocRefines ==
  ASSUME IngestInv, ArchiveInv, NEW r \in Threads, NEW c \in Contents, WriteDoc(r, c)
  PROVE  [Archive!ArchiveNext]_(Archive!archive)
  <1>1. UNCHANGED <<log, gone, verdict, tries>> /\ item[r][c] = "converted"
    BY DEF WriteDoc, AtItem, repo, queue
  <1>2. CASE UNCHANGED index
    BY <1>1, <1>2, ArchiveStutters
  <1>3. CASE index' = [index EXCEPT ![<<known[r][c], text[r][c]>>] = c]
    <2>1. known[r][c] \in Paths /\ text[r][c] \in Contents /\ item[r][c] \in Steps
      BY <1>1 DEF IngestInv, ThreadsTyped, Manifests, ItemsTrue
    <2>2. PICK p \in Paths, t \in Contents : p = known[r][c] /\ t = text[r][c]
      BY <2>1
    <2>3. Archive!Put(p, t)
      <3>1. ItemTrue("converted", p, t, c)
        BY <1>1, <2>1, <2>2 DEF IngestInv, ItemsTrue
      <3> QED BY <3>1 DEF ItemTrue, Was, Archive!Put
    <2>4. t \notin Empty
      BY <2>2 DEF ArchiveInv, TextsFull
    <2>5. DocsHeld' = DocsHeld \cup {<<p, t>>}
      <3>1. \A d \in Docs : index'[d] = IF d = <<p, t>> THEN c ELSE index[d]
        BY <1>3, <2>2 DEF IngestInv, IndexTyped
      <3>2. <<p, t>> \in Docs /\ c # None
        BY NoneOutside DEF Docs
      <3> QED BY <3>1, <3>2 DEF DocsHeld
    <2>6. Archive!Index(p, t)
      BY <1>1, <2>3, <2>4, <2>5 DEF Archive!Index
    <2> QED BY <2>6 DEF Archive!ArchiveNext
  <1> QED BY <1>2, <1>3 DEF WriteDoc

LEMMA StepRefinesArchive ==
  ASSUME IngestInv, ArchiveInv, IngestInv', [Next]_vars
  PROVE  [Archive!ArchiveNext]_(Archive!archive)
  <1>1. CASE GitCommit
    BY <1>1, GitCommitRefines DEF Archive!ArchiveNext
  <1>2. ASSUME NEW i \in DOMAIN log, BeginCommit(i)
        PROVE  [Archive!ArchiveNext]_(Archive!archive)
    <2>1. Archive!Attempt(i)
      BY <1>2 DEF BeginCommit, Deliverable, repo, DocsHeld, Archive!Attempt
    <2> QED BY <1>2, <2>1 DEF Archive!ArchiveNext
  <1>3. ASSUME NEW r \in Threads, Refresh(r)
        PROVE  [Archive!ArchiveNext]_(Archive!archive)
    <2>1. CASE ReplaceRaises(r)
      BY <2>1, RaiseRefines DEF ReplaceRaises
    <2>2. CASE Walk(r) \/ Write(r) \/ Replace(r)
      BY <2>2, ArchiveStutters DEF Walk, Write, Replace, repo, queue
    <2> QED BY <1>3, <2>1, <2>2 DEF Refresh
  <1>4. ASSUME NEW r \in Threads, LoadRaises(r)
        PROVE  [Archive!ArchiveNext]_(Archive!archive)
    BY <1>4, RaiseRefines DEF LoadRaises
  <1>5. CASE LoadCommit
    <2>1. job # 0
      BY <1>5 DEF LoadCommit, IngestInv, JobHeld
    <2>2. CASE JobFiles = {}
      BY <1>5, <2>1, <2>2, AnswerRefines DEF LoadCommit
    <2>3. CASE JobFiles # {}
      BY <1>5, <2>3, ArchiveStutters DEF LoadCommit, repo
    <2> QED BY <2>2, <2>3
  <1>6. CASE EndCommit
    <2>1. job # 0
      BY <1>6 DEF EndCommit, AllDone, IngestInv, JobHeld
    <2>2. PICK failed \in BOOLEAN : Answer(failed)
      BY <1>6 DEF EndCommit
    <2> QED BY <1>6, <2>1, <2>2, AnswerRefines DEF EndCommit
  <1>7. ASSUME NEW r \in Threads, Process(r)
        PROVE  [Archive!ArchiveNext]_(Archive!archive)
    <2>1. PICK c \in Contents : \/ SkipItem(r, c) \/ FindMissing(r, c) \/ Tombstone(r, c)
                                \/ Convert(r, c) \/ WriteDoc(r, c)
      BY <1>7 DEF Process
    <2>2. CASE SkipItem(r, c) \/ FindMissing(r, c) \/ Convert(r, c)
      BY <2>2, ArchiveStutters DEF SkipItem, FindMissing, Convert, repo, queue
    <2> QED BY <2>1, <2>2, TombstoneRefines, WriteDocRefines
  <1>8. CASE BeginCatchup \/ LoadCatchup \/ EndCatchup \/ Crash \/ UNCHANGED vars
    BY <1>8, ArchiveStutters DEF BeginCatchup, LoadCatchup, EndCatchup, Crash, vars, repo, queue
  <1> QED BY <1>1, <1>2, <1>3, <1>4, <1>5, <1>6, <1>7, <1>8
          DEF Next, CommitThread, CatchupThread, Threads

LEMMA InitRefinesArchive == Init => Archive!ArchiveInit
  BY DEF Init, DocsHeld, Archive!ArchiveInit

(* process_commit and run_catchup, with the manifest they tear between them, their
   retries, exceptions and restarts, implement the archive's promise, for any files,
   commits and failures. *)
THEOREM ArchiveRefinement == Spec => ImplementsArchive
  <1>1. Spec => []ArchiveInv
    BY InitArchiveInv, ArchiveInvStep, IngestSafety, PTL DEF Spec
  <1>2. ASSUME IngestInv, ArchiveInv, [Next]_vars
        PROVE  [Archive!ArchiveNext]_(Archive!archive)
    BY <1>2, StepHolds, StepRefinesArchive
  <1> QED BY <1>1, <1>2, InitRefinesArchive, IngestSafety, PTL
          DEF Spec, ImplementsArchive, Archive!ArchiveSpec

-----------------------------------------------------------------------------
(* An archive that only grows: nothing is deleted, and every path has a content of its
   own.  Every file is then settled, for ever. *)

LEMMA NothingDeleted ==
  ASSUME "delete" \notin Edits, gone = {}, [Next]_vars PROVE gone' = {}
  <1>1. CASE GitCommit
    <2>1. PICK tree \in [Paths -> Contents \cup {None}] :
            /\ \A p \in Paths : EditOf(raw[p], tree[p]) \in Edits \cup {"none"}
            /\ gone' = gone \cup {p \in Paths : raw[p] # None /\ tree[p] = None}
      BY <1>1 DEF GitCommit
    <2>2. ASSUME NEW p \in Paths, raw[p] # None, tree[p] = None PROVE FALSE
      <3>1. EditOf(raw[p], tree[p]) = "delete"
        BY <2>2 DEF EditOf
      <3> QED BY <3>1, <2>1
    <2> QED BY <2>1, <2>2
  <1>2. CASE ~GitCommit
    BY <1>2 DEF Next, CommitThread, CatchupThread, Refresh, Process, BeginCommit, BeginCatchup,
       Walk, Write, Replace, ReplaceRaises, LoadCommit, LoadCatchup, LoadRaises, Raise, SkipItem,
       FindMissing, Tombstone, Convert, WriteDoc, EndCommit, EndCatchup, Crash, repo, vars
  <1> QED BY <1>1, <1>2

(* The comment of processor.py, that a message is acked after the terminal outcome of its
   files, is true of an archive that only grows, whatever fails and however the threads
   meet: no acked commit leaves a file without its document.  The run ingest_acked shows
   that two versions of one file break it. *)
THEOREM GrowingArchiveAcked ==
  ASSUME "delete" \notin Edits,
         \A p \in Paths, c, d \in Contents : MayHold(p, c) /\ MayHold(p, d) => c = d,
         \A c \in Contents, p, q \in Paths : MayHold(p, c) /\ MayHold(q, c) => p = q
  PROVE  Spec => []AckedFilesAreIndexed
  <1> DEFINE Growing == gone = {} /\ WasAllowed
  <1>1. Init => Growing
    BY DEF Init, WasAllowed, Was
  <1>2. IngestInv /\ Growing /\ [Next]_vars => Growing'
    BY NothingDeleted, WasAllowedKept
  <1>3. ASSUME IngestInv, Growing, AckMeansSearchable PROVE AckedFilesAreIndexed
    <2> SUFFICES ASSUME NEW i \in DOMAIN log, verdict[i] = "acked", NEW p \in DOMAIN log[i],
                        raw[p] = log[i][p], raw[p] \notin Empty
                 PROVE  HasDocument(p, raw[p])
      BY DEF AckedFilesAreIndexed
    <2>1. PICK c \in Contents : log[i][p] = c
      BY <1>3, QueueRead DEF IngestInv
    <2>2. p \in Paths /\ MayHold(p, c)
      BY <1>3, <2>1, QueueRead DEF IngestInv, WasAllowed, Was
    <2>3. ASSUME NEW j \in DOMAIN log, NEW q \in DOMAIN log[j] PROVE q = p <=> log[j][q] = c
      <3>1. q \in Paths /\ log[j][q] \in Contents /\ Was(q, log[j][q])
        BY <1>3, QueueRead DEF IngestInv, Was
      <3>2. MayHold(q, log[j][q])
        BY <1>3, <3>1 DEF WasAllowed
      <3> QED BY <2>2, <3>1, <3>2
    <2>4. Settled(p, c)
      BY <1>3, <2>3 DEF Settled
    <2> QED BY <1>3, <2>1, <2>4 DEF AckMeansSearchable
  <1>4. Spec => []Growing
    <2> HIDE DEF Growing
    <2> QED BY <1>1, <1>2, IngestSafety, PTL DEF Spec
  <1> HIDE DEF Growing
  <1> QED BY <1>3, <1>4, IngestSafety, AckSafety, PTL
=============================================================================
