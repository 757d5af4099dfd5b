--------------------------- MODULE CatchupBatchProofs ---------------------------
(***************************************************************************)
(* Proofs about CatchupBatch: what the report of a pass, and the reports   *)
(* that look for what the passes left, can be relied on for, for any       *)
(* number of files, contents, edits and failures and any batch.            *)
(***************************************************************************)
EXTENDS CatchupBatch, LeastNatural

CatchupTypeOK ==
    /\ tree \in [Paths -> Contents \cup {Nothing}]
    /\ manifest \in [Contents -> Paths \cup {Nothing}]
    /\ store \in [Paths \X Contents -> Contents \cup {Nothing}]
    /\ told \in SUBSET Contents
    /\ todo = Idle \/ todo \in SUBSET Contents
    /\ report \in [remaining : Nat, dead : Nat, missing : Nat]
    /\ calm \in BOOLEAN /\ alive \in BOOLEAN

(* What is under way is registered; what is indexed has had an event, and its stamp is
   registered for the path of the document. *)
WorkRegistered == todo # Idle => \A c \in todo : manifest[c] \in Paths
StampsRegistered ==
    \A d \in InIndex : store[d] \in told /\ manifest[store[d]] = d[1]

(* As long as the tree is as it was when the pass began: every content of the tree is
   registered, the files of the work list are there... *)
TreeRegistered == calm => \A p \in Paths : Present(p) => manifest[tree[p]] \in Paths
WorkPresent == calm /\ todo # Idle => \A c \in todo : Present(manifest[c])

(* ...and when nothing remains, what has had no event is still to be done... *)
RemainderKnown ==
    calm /\ report.remaining = 0 =>
        \A c \in Contents :
            Ingestable(manifest[c]) /\ (Present(manifest[c]) \/ report.missing = 0)
                => c \in told \cup todo

(* ...and when nothing has been dead-lettered either, so is a text without a document of
   the path that it alone is registered for, and a path without any. *)
TextsIndexed ==
    calm /\ report.remaining = 0 /\ report.dead = 0 =>
        \A c \in Contents \ Blank :
            /\ Ingestable(manifest[c]) /\ Present(manifest[c])
            /\ \A b \in Contents : manifest[b] = manifest[c] => tree[manifest[c]] = b
            => c \in IndexedShas \cup todo

PathsIndexed ==
    calm /\ report.remaining = 0 /\ report.dead = 0 /\ report.missing = 0 =>
        \A c \in Contents :
            Ingestable(manifest[c]) =>
                \/ \E d \in InIndex : d[1] = manifest[c]
                \/ Present(manifest[c]) /\ tree[manifest[c]] \in Blank
                \/ c \in todo

CatchupInv ==
    /\ CatchupTypeOK
    /\ WorkRegistered /\ StampsRegistered
    /\ TreeRegistered /\ WorkPresent
    /\ RemainderKnown /\ TextsIndexed /\ PathsIndexed

LEMMA CatchupInitial == CatchupInit => CatchupInv
  <1> SUFFICES ASSUME CatchupInit PROVE CatchupInv
    OBVIOUS
  <1>1. CatchupTypeOK
    BY CatchupAssumption DEF CatchupInit, CatchupTypeOK
  <1>2. InIndex = {}
    BY DEF CatchupInit, InIndex
  <1> QED
    BY <1>1, <1>2
    DEF CatchupInit, CatchupInv, WorkRegistered, StampsRegistered, TreeRegistered,
        WorkPresent, RemainderKnown, TextsIndexed, PathsIndexed, Idle

(* The two ways in which the state of a pass is left as it is, or taken up again. *)
LEMMA NothingIsOutside == Nothing \notin Paths /\ Nothing \notin Contents
  BY CatchupAssumption

LEMMA InIndexTyped ==
  ASSUME CatchupTypeOK
  PROVE  /\ InIndex \in SUBSET (Paths \X Contents)
         /\ \A d \in InIndex : store[d] \in Contents
         /\ \A c : c \in IndexedShas <=> \E d \in InIndex : store[d] = c
  BY DEF CatchupTypeOK, InIndex, IndexedShas

(* A step that leaves the manifest, the tree, the pass and the events alone, or ends
   what was calm, keeps the invariant. *)
LEMMA EditKeeps == CatchupInv /\ EditTree => CatchupInv'
  <1> SUFFICES ASSUME CatchupInv, EditTree PROVE CatchupInv'
    OBVIOUS
  <1>1. /\ calm' = FALSE
        /\ UNCHANGED <<manifest, store, told, todo, report, alive>>
    BY DEF EditTree
  <1>2. CatchupTypeOK'
    BY <1>1 DEF EditTree, CatchupInv, CatchupTypeOK
  <1>3. InIndex' = InIndex
    BY <1>1 DEF InIndex
  <1> QED
    BY <1>1, <1>2, <1>3
    DEF CatchupInv, WorkRegistered, StampsRegistered, TreeRegistered, WorkPresent,
        RemainderKnown, TextsIndexed, PathsIndexed, Idle

(* refresh_provenance keeps what is registered and registers what the tree holds. *)
LEMMA RefreshRegisters ==
  ASSUME CatchupInv
  PROVE  /\ RefreshedManifest \in [Contents -> Paths \cup {Nothing}]
         /\ \A c \in Contents : manifest[c] # Nothing => RefreshedManifest[c] = manifest[c]
         /\ \A p \in Paths : Present(p) => RefreshedManifest[tree[p]] \in Paths
  <1>1. ASSUME NEW c \in Contents, \E p \in Paths : tree[p] = c
        PROVE  FirstAt(c) \in Paths
    <2> DEFINE S == {p \in Paths : tree[p] = c}
    <2>1. S \in SUBSET Nat /\ S # {}
      BY <1>1, CatchupAssumption
    <2>2. \E p \in S : \A q \in S : p <= q
      BY <2>1, LeastExists
    <2> QED BY <2>2 DEF FirstAt
  <1>2. \A p \in Paths : Present(p) => tree[p] \in Contents
    BY DEF CatchupInv, CatchupTypeOK, Present
  <1> QED
    BY <1>1, <1>2, NothingIsOutside DEF CatchupInv, CatchupTypeOK, RefreshedManifest

(* What a pass counts and takes.  Nothing remaining means that all that is pending was
   taken; no source missing, that all that is wanted is pending. *)
LEMMA CountsAreSound ==
  ASSUME NEW entries \in [Contents -> Paths \cup {Nothing}]
  PROVE  LET pending == PendingShas(entries)
         IN  /\ pending \in SUBSET WantedShas(entries)
             /\ WantedShas(entries) \in SUBSET Contents
             /\ Selection(pending) \in SUBSET pending
             /\ Backlog(pending) \in Nat
             /\ Cardinality(WantedShas(entries) \ pending) \in Nat
             /\ Backlog(pending) = 0 => Selection(pending) = pending
             /\ Cardinality(WantedShas(entries) \ pending) = 0
                  => pending = WantedShas(entries)
  <1> DEFINE pending == PendingShas(entries)
             wanted == WantedShas(entries)
  <1>1. wanted \in SUBSET Contents
    BY DEF WantedShas
  <1>2. pending \in SUBSET wanted
    BY DEF PendingShas
  <1>3. Selection(pending) \in SUBSET pending
    BY DEF Selection
  <1>4. IsFiniteSet(wanted)
    BY <1>1, CatchupAssumption, FS_Subset
  <1>5. IsFiniteSet(pending) /\ IsFiniteSet(wanted \ pending)
    <2>1. wanted \ pending \in SUBSET wanted
      OBVIOUS
    <2> HIDE DEF pending, wanted
    <2> QED BY <2>1, <1>2, <1>4, FS_Subset
  <1>6. /\ Cardinality(pending) \in Nat /\ Cardinality(wanted \ pending) \in Nat
        /\ IsFiniteSet(Selection(pending)) /\ Cardinality(Selection(pending)) \in Nat
        /\ Cardinality(Selection(pending)) <= Cardinality(pending)
        /\ Cardinality(pending) = Cardinality(Selection(pending))
             => pending = Selection(pending)
    <2> HIDE DEF pending, wanted
    <2> QED BY <1>3, <1>5, FS_Subset, FS_CardinalityType
  <1>7. Backlog(pending) \in Nat /\ (Backlog(pending) = 0 => Selection(pending) = pending)
    <2> HIDE DEF pending
    <2> QED BY <1>6 DEF Backlog
  <1>8. Cardinality(wanted \ pending) = 0 => wanted \ pending = {}
    BY <1>5, FS_EmptySet
  <1> HIDE DEF pending, wanted
  <1>9. Cardinality(wanted \ pending) = 0 => pending = wanted
    BY <1>2, <1>8
  <1> QED BY <1>1, <1>2, <1>3, <1>6, <1>7, <1>9 DEF pending, wanted

LEMMA BeginKeeps == CatchupInv /\ BeginBatch => CatchupInv'
  <1> SUFFICES ASSUME CatchupInv, BeginBatch PROVE CatchupInv'
    OBVIOUS
  <1> DEFINE entries == RefreshedManifest
             pending == PendingShas(entries)
  <1>1. /\ entries \in [Contents -> Paths \cup {Nothing}]
        /\ \A c \in Contents : manifest[c] # Nothing => entries[c] = manifest[c]
        /\ \A p \in Paths : Present(p) => entries[tree[p]] \in Paths
    BY RefreshRegisters
  <1>2. /\ todo' = WorkItems(entries, Selection(pending))
        /\ report' = [remaining |-> Backlog(pending), dead |-> 0,
                      missing |-> Cardinality(WantedShas(entries) \ pending)]
        /\ manifest' = entries /\ calm' = TRUE
        /\ UNCHANGED <<tree, store, told, alive>>
    BY DEF BeginBatch
  <1> HIDE DEF entries
  <1>3. /\ pending \in SUBSET WantedShas(entries)
        /\ WantedShas(entries) \in SUBSET Contents
        /\ Selection(pending) \in SUBSET pending
        /\ Backlog(pending) \in Nat
        /\ Cardinality(WantedShas(entries) \ pending) \in Nat
        /\ Backlog(pending) = 0 => Selection(pending) = pending
        /\ Cardinality(WantedShas(entries) \ pending) = 0 => pending = WantedShas(entries)
    BY <1>1, CountsAreSound
  <1> HIDE DEF pending
  <1>4. InIndex' = InIndex /\ IndexedShas' = IndexedShas
    BY <1>2 DEF InIndex, IndexedShas
  <1>5. CatchupTypeOK'
    BY <1>1, <1>2, <1>3 DEF CatchupInv, CatchupTypeOK, WorkItems
  <1>6. \A c \in todo' : Present(entries[c]) /\ entries[c] \in Paths
    <2>1. \A s \in pending : Present(entries[s]) /\ entries[s] \in Paths
      BY <1>1, <1>3 DEF PendingShas, WantedShas, Ingestable, pending
    <2> QED BY <1>1, <1>2, <1>3, <2>1 DEF WorkItems
  (* Everything that is wanted is taken, if nothing remains and it is there. *)
  <1>7. \A c \in Contents : /\ report'.remaining = 0
                            /\ Ingestable(entries[c]) /\ c \notin IndexedShas
                            /\ Present(entries[c]) \/ report'.missing = 0
                            => c \in todo' /\ Present(entries[c])
    <2> SUFFICES ASSUME NEW c \in Contents, report'.remaining = 0,
                        Ingestable(entries[c]), c \notin IndexedShas,
                        Present(entries[c]) \/ report'.missing = 0
                 PROVE  c \in todo' /\ Present(entries[c])
      OBVIOUS
    <2>1. c \in WantedShas(entries)
      BY DEF WantedShas
    <2>2. c \in pending
      BY <1>2, <1>3, <2>1 DEF PendingShas, pending
    <2>3. Selection(pending) = pending
      BY <1>2, <1>3
    <2>4. Present(entries[c])
      BY <2>2 DEF PendingShas, pending
    <2> QED BY <1>2, <2>2, <2>3, <2>4 DEF WorkItems
  <1>8. WorkRegistered' /\ WorkPresent'
    BY <1>2, <1>6 DEF WorkRegistered, WorkPresent, Present
  <1>9. StampsRegistered'
    BY <1>1, <1>2, <1>4, NothingIsOutside
    DEF CatchupInv, CatchupTypeOK, StampsRegistered, InIndex
  <1>10. TreeRegistered'
    BY <1>1, <1>2 DEF TreeRegistered, Present
  <1>11. RemainderKnown'
    <2>1. IndexedShas \subseteq told
      BY InIndexTyped DEF CatchupInv, StampsRegistered
    <2> QED BY <1>2, <1>7, <2>1 DEF RemainderKnown, Present, Ingestable
  <1>12. TextsIndexed'
    BY <1>2, <1>4, <1>7 DEF TextsIndexed, Present, Ingestable
  <1>13. PathsIndexed'
    <2> SUFFICES ASSUME NEW c \in Contents, report'.remaining = 0, report'.missing = 0,
                        Ingestable(entries[c]), c \notin todo'
                 PROVE  \E d \in InIndex : d[1] = entries[c]
      BY <1>2, <1>4 DEF PathsIndexed, Ingestable
    <2>1. c \in IndexedShas
      BY <1>7
    <2> QED BY <2>1, <1>2, <1>4, <1>9, InIndexTyped DEF CatchupInv, StampsRegistered
  <1> QED
    BY <1>5, <1>8, <1>9, <1>10, <1>11, <1>12, <1>13 DEF CatchupInv

(* What every item of the work list has in common. *)
LEMMA ItemFrame ==
  ASSUME CatchupInv, NEW c \in todo \ Idle,
         todo' = todo \ {c}, UNCHANGED <<tree, manifest, calm>>
  PROVE  /\ c \in Contents /\ manifest[c] \in Paths /\ todo # Idle
         /\ calm => Present(manifest[c])
         /\ todo' \in SUBSET Contents /\ todo' # Idle
         /\ WorkRegistered' /\ WorkPresent' /\ TreeRegistered'
  <1>1. todo # Idle /\ todo \in SUBSET Contents
    BY DEF CatchupInv, CatchupTypeOK
  <1>2. c \in Contents /\ manifest[c] \in Paths /\ (calm => Present(manifest[c]))
    BY <1>1 DEF CatchupInv, WorkRegistered, WorkPresent
  <1>3. todo' \in SUBSET Contents /\ todo' # Idle
    BY <1>1, NothingIsOutside DEF Idle
  <1>4. WorkRegistered' /\ WorkPresent' /\ TreeRegistered'
    BY <1>1 DEF CatchupInv, WorkRegistered, WorkPresent, TreeRegistered, Present
  <1> QED BY <1>1, <1>2, <1>3, <1>4

(* An item whose file is gone: the tree is not what it was when the pass began, so that
   only the types and the stamps are left to keep. *)
LEMMA GoneKeeps ==
  ASSUME CatchupInv, NEW c \in todo \ Idle, TombstoneGone(c) \/ RaiseGone(c)
  PROVE  CatchupInv'
  <1>1. /\ todo' = todo \ {c} /\ UNCHANGED <<tree, manifest, calm>>
        /\ ~Present(manifest[c])
        /\ report'.remaining = report.remaining
    BY DEF TombstoneGone, RaiseGone, ItemEnds, CatchupInv, CatchupTypeOK
  <1>2. /\ c \in Contents /\ todo' \in SUBSET Contents
        /\ WorkRegistered' /\ WorkPresent' /\ TreeRegistered'
        /\ ~calm
    BY <1>1, ItemFrame
  <1>3. /\ told' \in {told, told \cup {c}} /\ alive' \in BOOLEAN
        /\ report' \in [remaining : Nat, dead : Nat, missing : Nat]
    <2>1. told' \in {told, told \cup {c}} /\ alive' \in BOOLEAN
      BY DEF TombstoneGone, RaiseGone, ItemEnds, CatchupInv, CatchupTypeOK
    <2>2. report' \in {report, [report EXCEPT !.dead = @ + 1]}
      BY Zenon DEF TombstoneGone, RaiseGone, ItemEnds
    <2> QED BY <2>1, <2>2 DEF CatchupInv, CatchupTypeOK
  <1>4. /\ store' \in [Paths \X Contents -> Contents \cup {Nothing}]
        /\ \A d \in Paths \X Contents : store'[d] \in {Nothing, store[d]}
    BY DEF TombstoneGone, RaiseGone, CatchupInv, CatchupTypeOK
  <1>5. CatchupTypeOK'
    BY <1>1, <1>2, <1>3, <1>4 DEF CatchupInv, CatchupTypeOK
  <1>6. StampsRegistered'
    BY <1>1, <1>3, <1>4 DEF CatchupInv, StampsRegistered, InIndex
  <1>7. RemainderKnown' /\ TextsIndexed' /\ PathsIndexed'
    BY <1>1, <1>2 DEF RemainderKnown, TextsIndexed, PathsIndexed
  <1> QED BY <1>2, <1>5, <1>6, <1>7 DEF CatchupInv

(* An item that leaves the index alone: a file without text, or a failure. *)
LEMMA UnindexedKeeps ==
  ASSUME CatchupInv, NEW c \in todo \ Idle, SkipBlank(c) \/ ItemFails(c)
  PROVE  CatchupInv'
  <1>1. /\ todo' = todo \ {c} /\ told' = told \cup {c}
        /\ UNCHANGED <<tree, manifest, calm, store, alive>>
        /\ Present(manifest[c])
        /\ report' \in [remaining : Nat, dead : Nat, missing : Nat]
        /\ report'.remaining = report.remaining /\ report'.missing = report.missing
        /\ report'.dead = 0 => report.dead = 0 /\ tree[manifest[c]] \in Blank
    BY DEF SkipBlank, ItemFails, ItemEnds, CatchupInv, CatchupTypeOK
  <1>2. /\ c \in Contents /\ manifest[c] \in Paths
        /\ todo # Idle /\ todo' \in SUBSET Contents /\ todo' # Idle
        /\ WorkRegistered' /\ WorkPresent' /\ TreeRegistered'
    BY <1>1, ItemFrame
  <1>3. CatchupTypeOK'
    BY <1>1, <1>2 DEF CatchupInv, CatchupTypeOK
  <1>4. InIndex' = InIndex /\ IndexedShas' = IndexedShas
    BY <1>1 DEF InIndex, IndexedShas
  <1>5. StampsRegistered'
    BY <1>1, <1>4 DEF CatchupInv, StampsRegistered
  <1>6. RemainderKnown'
    BY <1>1 DEF CatchupInv, RemainderKnown, Ingestable, Present
  <1>7. TextsIndexed'
    BY <1>1, <1>2, <1>4 DEF CatchupInv, TextsIndexed, Ingestable, Present
  <1>8. PathsIndexed'
    BY <1>1, <1>4 DEF CatchupInv, PathsIndexed, Ingestable, Present
  <1> QED BY <1>2, <1>3, <1>5, <1>6, <1>7, <1>8 DEF CatchupInv

(* An item that is indexed: its stamp may replace another of the same path. *)
LEMMA IndexKeeps ==
  ASSUME CatchupInv, NEW c \in todo \ Idle, IndexText(c)
  PROVE  CatchupInv'
  <1> DEFINE p == manifest[c]
             doc == <<p, tree[p]>>
  <1>1. /\ todo' = todo \ {c} /\ told' = told \cup {c}
        /\ UNCHANGED <<tree, manifest, calm, alive>>
        /\ store' = [store EXCEPT ![doc] = c]
        /\ Present(p) /\ tree[p] \notin Blank
        /\ report' \in [remaining : Nat, dead : Nat, missing : Nat]
        /\ report'.remaining = report.remaining /\ report'.missing = report.missing
        /\ report'.dead = report.dead
    BY DEF IndexText, ItemEnds, CatchupInv, CatchupTypeOK
  <1>2. /\ c \in Contents /\ p \in Paths
        /\ todo # Idle /\ todo' \in SUBSET Contents /\ todo' # Idle
        /\ WorkRegistered' /\ WorkPresent' /\ TreeRegistered'
    BY <1>1, ItemFrame
  <1>3. doc \in Paths \X Contents
    BY <1>1, <1>2 DEF CatchupInv, CatchupTypeOK, Present
  <1>4. CatchupTypeOK'
    BY <1>1, <1>2 DEF CatchupInv, CatchupTypeOK
  <1>5. /\ InIndex' = InIndex \cup {doc}
        /\ \A d \in Paths \X Contents : store'[d] = IF d = doc THEN c ELSE store[d]
    BY <1>1, <1>2, <1>3, NothingIsOutside DEF CatchupInv, CatchupTypeOK, InIndex
  <1> HIDE DEF doc
  <1>6. doc[1] = p
    BY DEF doc
  <1>7. StampsRegistered'
    BY <1>1, <1>3, <1>5, <1>6, InIndexTyped DEF CatchupInv, StampsRegistered
  <1>8. RemainderKnown'
    BY <1>1 DEF CatchupInv, RemainderKnown, Ingestable, Present
  <1>9. c \in IndexedShas'
    BY <1>3, <1>5 DEF IndexedShas
  (* What the new document replaces has the stamp of another content of its path. *)
  <1>10. \A b \in IndexedShas : b \in IndexedShas' \/ (manifest[b] = p /\ b # c)
    <2> SUFFICES ASSUME NEW d \in InIndex, store[d] \notin IndexedShas'
                 PROVE  manifest[store[d]] = p /\ store[d] # c
      BY DEF IndexedShas
    <2>1. d = doc
      BY <1>5, InIndexTyped DEF CatchupInv, IndexedShas
    <2> QED BY <2>1, <1>6, <1>9 DEF CatchupInv, StampsRegistered
  <1>11. TextsIndexed'
    <2> SUFFICES ASSUME calm, report.remaining = 0, report.dead = 0,
                        NEW b \in Contents \ Blank,
                        Ingestable(manifest[b]), Present(manifest[b]),
                        \A a \in Contents : manifest[a] = manifest[b] => tree[manifest[b]] = a,
                        b \notin todo'
                 PROVE  b \in IndexedShas'
      BY <1>1 DEF TextsIndexed, Ingestable, Present
    <2>1. b = c \/ b \in IndexedShas
      BY <1>1 DEF CatchupInv, TextsIndexed
    <2>2. manifest[b] = p => b = c
      BY <1>2
    <2> QED BY <2>1, <2>2, <1>9, <1>10
  <1>12. PathsIndexed'
    BY <1>1, <1>5, <1>6 DEF CatchupInv, PathsIndexed, Ingestable, Present
  <1> QED BY <1>2, <1>4, <1>7, <1>8, <1>11, <1>12 DEF CatchupInv

LEMMA EndKeeps == CatchupInv /\ (EndBatch \/ RestartLoop) => CatchupInv'
  <1> SUFFICES ASSUME CatchupInv, EndBatch \/ RestartLoop PROVE CatchupInv'
    OBVIOUS
  <1>1. /\ UNCHANGED <<tree, manifest, store, told, report, calm>>
        /\ todo' = Idle /\ (todo = {} \/ todo = Idle)
        /\ alive' \in BOOLEAN
    BY DEF EndBatch, RestartLoop, CatchupInv, CatchupTypeOK
  <1>2. \A c \in Contents : c \notin todo /\ c \notin Idle
    BY <1>1, NothingIsOutside DEF Idle
  <1>3. CatchupTypeOK'
    BY <1>1 DEF CatchupInv, CatchupTypeOK, Idle
  <1>4. InIndex' = InIndex /\ IndexedShas' = IndexedShas
    BY <1>1 DEF InIndex, IndexedShas
  <1>5. WorkRegistered' /\ WorkPresent'
    BY <1>1 DEF WorkRegistered, WorkPresent, Idle
  <1>6. StampsRegistered' /\ TreeRegistered'
    BY <1>1, <1>4 DEF CatchupInv, StampsRegistered, TreeRegistered, Present
  <1>7. RemainderKnown'
    BY <1>1, <1>2 DEF CatchupInv, RemainderKnown, Ingestable, Present
  <1>8. TextsIndexed'
    BY <1>1, <1>2, <1>4 DEF CatchupInv, TextsIndexed, Ingestable, Present
  <1>9. PathsIndexed'
    BY <1>1, <1>2, <1>4 DEF CatchupInv, PathsIndexed, Ingestable, Present
  <1> QED BY <1>3, <1>5, <1>6, <1>7, <1>8, <1>9 DEF CatchupInv

LEMMA CatchupStep == CatchupInv /\ [CatchupNext]_catchupVars => CatchupInv'
  <1> SUFFICES ASSUME CatchupInv, [CatchupNext]_catchupVars PROVE CatchupInv'
    OBVIOUS
  <1>1. CASE EditTree
    BY <1>1, EditKeeps
  <1>2. CASE BeginBatch
    BY <1>2, BeginKeeps
  <1>3. ASSUME NEW c \in todo \ Idle, ProcessItem(c) PROVE CatchupInv'
    BY <1>3, GoneKeeps, UnindexedKeeps, IndexKeeps DEF ProcessItem
  <1>4. CASE EndBatch \/ RestartLoop
    BY <1>4, EndKeeps
  <1>5. CASE UNCHANGED catchupVars
    BY <1>5
    DEF catchupVars, CatchupInv, CatchupTypeOK, WorkRegistered, StampsRegistered, InIndex,
        IndexedShas, TreeRegistered, WorkPresent, RemainderKnown, TextsIndexed,
        PathsIndexed, Idle, Present, Ingestable
  <1> QED BY <1>1, <1>2, <1>3, <1>4, <1>5 DEF CatchupNext, BatchStep

(* Every reachable state has the invariant the theorems below follow from. *)
THEOREM CatchupInvariance == CatchupSpec => []CatchupInv
  BY CatchupInitial, CatchupStep, PTL DEF CatchupSpec

(* What a pass says nothing remains of has had an event, for any batch and number of
   files: the report of a pass accounts for everything. *)
THEOREM ReportAccounts == CatchupSpec => []NoSilentDrop
  <1>1. CatchupInv => NoSilentDrop
    BY NothingIsOutside
    DEF CatchupInv, RemainderKnown, NoSilentDrop, JustEnded, Idle
  <1> QED BY <1>1, CatchupInvariance, PTL

(* A clean report is the truth about the gap and about audit's missing paths, but for
   the exceptions that CleanPassLeavesNoGap names. *)
LEMMA CleanReport == CatchupInv => CleanPassLeavesNoGap
  <1> SUFFICES ASSUME CatchupInv, JustEnded, report.remaining = 0, report.dead = 0
               PROVE  /\ \A p \in Gap :
                           LET home == manifest[tree[p]]
                           IN  \/ tree[p] \in Blank
                               \/ home # p /\ (~Ingestable(home) \/ tree[home] # tree[p])
                               \/ Superseded(home)
                      /\ report.missing = 0 => \A p \in AuditMissing(InIndex) :
                           ~Ingestable(p) \/ tree[p] \in Blank
    BY DEF CleanPassLeavesNoGap, IngestExit
  <1>1. calm /\ \A c \in Contents : c \notin todo
    BY NothingIsOutside DEF JustEnded, Idle
  <1>2. ASSUME NEW p \in Gap
        PROVE  LET home == manifest[tree[p]]
               IN  \/ tree[p] \in Blank
                   \/ home # p /\ (~Ingestable(home) \/ tree[home] # tree[p])
                   \/ Superseded(home)
    <2> DEFINE c == tree[p]
               home == manifest[c]
    <2>1. /\ p \in Paths /\ Ingestable(p) /\ Present(p)
          /\ c \in Contents /\ c \notin IndexedShas /\ home \in Paths
      BY <1>1 DEF Gap, CatchupInv, CatchupTypeOK, TreeRegistered, Present
    <2> SUFFICES ASSUME c \notin Blank, ~Superseded(home),
                        home = p \/ (Ingestable(home) /\ tree[home] = c)
                 PROVE  FALSE
      OBVIOUS
    <2>2. Ingestable(home) /\ Present(home)
      BY <2>1, NothingIsOutside DEF Present
    <2>3. \A b \in Contents : manifest[b] = home => tree[home] = b
      BY DEF Superseded
    <2> HIDE DEF home, c
    <2>4. c \in IndexedShas \cup todo
      BY <1>1, <2>1, <2>2, <2>3 DEF CatchupInv, TextsIndexed, home
    <2> QED BY <1>1, <2>1, <2>4
  <1>3. ASSUME report.missing = 0, NEW p \in AuditMissing(InIndex), Ingestable(p)
        PROVE  tree[p] \in Blank
    <2>1. /\ \A d \in InIndex : d[1] # p
          /\ \E c \in Contents : manifest[c] = p
      BY <1>3 DEF AuditMissing, Registered
    <2> QED BY <1>1, <1>3, <2>1 DEF CatchupInv, PathsIndexed
  <1> QED BY <1>2, <1>3

(* A clean report is the truth about the tree but for its three exceptions, whatever the
   tree, the batch and the failures were. *)
THEOREM CleanReportIsTrue == CatchupSpec => []CleanPassLeavesNoGap
  BY CatchupInvariance, CleanReport, PTL

(* The reports of audit are complete and exact as long as the index fits one page, and
   its exit code 0 can be relied on beyond it, for any page. *)
LEMMA AuditReports == CatchupInv => OrphansAreFound
  <1> SUFFICES ASSUME CatchupInv, NEW page \in Pages
               PROVE  /\ Cardinality(InIndex) <= Page =>
                           {o.path : o \in {x \in Orphans(page) : x.indexed}}
                               = {d[1] : d \in {e \in InIndex : ~Present(e[1])}}
                      /\ AuditExit(page) = 0 =>
                           /\ {d[1] : d \in InIndex} = Registered
                           /\ \A p \in Registered : Present(p)
    BY DEF OrphansAreFound
  <1>1. page \in SUBSET InIndex
    BY DEF Pages
  <1>2. \A d \in InIndex : d[1] \in Registered
    BY InIndexTyped, NothingIsOutside DEF CatchupInv, StampsRegistered, Registered
  <1> DEFINE shown(p) == \E d \in page : d[1] = p
             row(p) == [path |-> p, indexed |-> shown(p)]
  <1>3. /\ Orphans(page) = {row(p) : p \in {q \in Registered : ~Present(q)}}
        /\ \A p : row(p).path = p /\ (row(p).indexed <=> shown(p))
    BY DEF Orphans
  <1> HIDE DEF row
  <1>4. Cardinality(InIndex) <= Page => page = InIndex
    <2>1. IsFiniteSet(Paths \X Contents)
      BY CatchupAssumption, FS_Product
    <2>2. IsFiniteSet(InIndex)
      BY <2>1, InIndexTyped, FS_Subset DEF CatchupInv
    <2>3. Cardinality(InIndex) <= Page => Cardinality(page) = Cardinality(InIndex)
      BY DEF Pages
    <2> QED BY <1>1, <2>2, <2>3, FS_Subset
  <1>5. {o.path : o \in {x \in Orphans(page) : x.indexed}}
          = {p \in Registered : ~Present(p) /\ \E d \in page : d[1] = p}
    BY <1>3
  <1>6. ASSUME Cardinality(InIndex) <= Page
        PROVE  {p \in Registered : ~Present(p) /\ \E d \in page : d[1] = p}
                 = {d[1] : d \in {e \in InIndex : ~Present(e[1])}}
    BY <1>2, <1>6, <1>4
  <1>7. ASSUME AuditExit(page) = 0
        PROVE  {d[1] : d \in InIndex} = Registered /\ \A p \in Registered : Present(p)
    <2>1. AuditMissing(page) = {} /\ Orphans(page) = {}
      BY <1>7 DEF AuditExit
    <2>2. Registered \subseteq {d[1] : d \in page}
      BY <2>1 DEF AuditMissing
    <2>3. \A p \in Registered : Present(p)
      BY <2>1, <1>3
    <2> QED BY <1>1, <1>2, <2>2, <2>3
  <1> QED BY <1>5, <1>6, <1>7

(* audit --orphans finds every document of a deleted file, and no other, as long as the
   index fits one page, for any number of files, contents and failures. *)
THEOREM AuditIsSound == CatchupSpec => []OrphansAreFound
  BY CatchupInvariance, AuditReports, PTL

-----------------------------------------------------------------------------
(* How much a pass can have left.  The texts that should have a document and have none,
   but for those of a path that several contents are registered for, whose documents take
   the stamp from each other... *)
OpenTexts ==
    {c \in Contents \ (Blank \cup IndexedShas) :
        /\ Ingestable(manifest[c]) /\ Present(manifest[c])
        /\ ~Superseded(manifest[c])}

(* ...are on the work list of the pass, or counted as remaining, or as dead. *)
UnderWay == IF todo = Idle THEN {} ELSE todo
Unaccounted == OpenTexts \ UnderWay
OpenBounded == calm => Cardinality(Unaccounted) <= report.remaining + report.dead
ReportBoundsTheRest ==
    JustEnded => Cardinality(OpenTexts) <= report.remaining + report.dead

LEMMA OpenTextsFinite ==
  /\ IsFiniteSet(OpenTexts) /\ IsFiniteSet(Unaccounted)
  /\ Cardinality(OpenTexts) \in Nat /\ Cardinality(Unaccounted) \in Nat
  <1>1. OpenTexts \in SUBSET Contents /\ Unaccounted \in SUBSET Contents
    BY DEF OpenTexts, Unaccounted
  <1> QED BY <1>1, CatchupAssumption, FS_Subset, FS_CardinalityType

(* What is left out of a selection is what the report says remains. *)
LEMMA BacklogIsTheRest ==
  ASSUME NEW pending \in SUBSET Contents
  PROVE  /\ IsFiniteSet(pending \ Selection(pending))
         /\ Cardinality(pending \ Selection(pending)) = Backlog(pending)
  <1>1. Selection(pending) \in SUBSET pending
    BY DEF Selection
  <1>2. pending \cap Selection(pending) = Selection(pending)
    BY <1>1
  <1>3. IsFiniteSet(pending) /\ IsFiniteSet(pending \ Selection(pending))
    BY CatchupAssumption, FS_Subset
  <1> QED BY <1>2, <1>3, FS_Difference DEF Backlog

LEMMA BeginBounds == CatchupInv /\ BeginBatch => OpenBounded'
  <1> SUFFICES ASSUME CatchupInv, BeginBatch PROVE OpenBounded'
    OBVIOUS
  <1> DEFINE entries == RefreshedManifest
             pending == PendingShas(entries)
  <1>1. /\ todo' = WorkItems(entries, Selection(pending))
        /\ report'.remaining = Backlog(pending) /\ report'.dead = 0
        /\ manifest' = entries /\ UNCHANGED <<tree, store>>
    BY DEF BeginBatch
  <1>2. pending \in SUBSET Contents /\ Selection(pending) \in SUBSET pending
    BY DEF PendingShas, WantedShas, Selection
  <1>3. InIndex' = InIndex /\ IndexedShas' = IndexedShas
    BY <1>1 DEF InIndex, IndexedShas
  <1>4. OpenTexts' \subseteq pending
    BY <1>1, <1>3 DEF OpenTexts, PendingShas, WantedShas, Ingestable, Present
  <1>5. Selection(pending) \subseteq todo' /\ todo' \subseteq Contents
    BY <1>1, <1>2 DEF WorkItems, PendingShas, WantedShas
  <1>6. UnderWay' = todo'
    BY <1>5, NothingIsOutside DEF UnderWay, Idle
  <1>7. Unaccounted' \subseteq pending \ Selection(pending)
    BY <1>4, <1>5, <1>6 DEF Unaccounted
  <1> HIDE DEF pending, entries
  <1>8. Cardinality(Unaccounted') <= Backlog(pending)
    <2> DEFINE rest == pending \ Selection(pending)
    <2>1. IsFiniteSet(rest) /\ Cardinality(rest) = Backlog(pending)
      BY <1>2, BacklogIsTheRest
    <2>2. Unaccounted' \in SUBSET rest
      BY <1>7
    <2> HIDE DEF rest
    <2> QED BY <2>1, <2>2, FS_Subset
  <1>9. Cardinality(Unaccounted)' = Cardinality(Unaccounted')
    OBVIOUS
  <1>10. Backlog(pending) \in Nat
    BY <1>2, BacklogIsTheRest, FS_CardinalityType
  <1> QED BY <1>1, <1>8, <1>9, <1>10 DEF OpenBounded

(* An item under way.  What becomes open by it was so before; unless it is indexed or
   counted as dead, it has no text. *)
LEMMA ItemOpens ==
  ASSUME CatchupInv, NEW c \in todo \ Idle, ProcessItem(c), calm
  PROVE  /\ Unaccounted' \subseteq Unaccounted \cup {c}
         /\ ~ItemFails(c) => Unaccounted' \subseteq Unaccounted
  <1>1. /\ todo' = todo \ {c} /\ UNCHANGED <<tree, manifest, calm>>
        /\ Present(manifest[c]) => /\ SkipBlank(c) \/ ItemFails(c) => UNCHANGED store
                                   /\ SkipBlank(c) => tree[manifest[c]] \in Blank
    BY DEF ProcessItem, TombstoneGone, RaiseGone, SkipBlank, IndexText, ItemFails, ItemEnds
  <1>2. /\ c \in Contents /\ manifest[c] \in Paths
        /\ todo # Idle /\ todo' # Idle /\ Present(manifest[c])
    BY <1>1, ItemFrame
  <1>3. UnderWay = todo /\ UnderWay' = todo'
    BY <1>2 DEF UnderWay
  <1>4. SkipBlank(c) \/ IndexText(c) \/ ItemFails(c)
    BY <1>2 DEF ProcessItem, TombstoneGone, RaiseGone
  <1>5. CASE SkipBlank(c) \/ ItemFails(c)
    <2>1. IndexedShas' = IndexedShas
      BY <1>1, <1>2, <1>5 DEF IndexedShas, InIndex
    <2>2. OpenTexts' = OpenTexts
      BY <1>1, <2>1 DEF OpenTexts, Ingestable, Present, Superseded
    <2>3. SkipBlank(c) => c \notin OpenTexts
      BY <1>1, <1>2 DEF OpenTexts, Superseded
    <2> QED BY <1>1, <1>3, <1>5, <2>2, <2>3 DEF Unaccounted
  <1>6. CASE IndexText(c)
    <2> DEFINE doc == <<manifest[c], tree[manifest[c]]>>
    <2>1. store' = [store EXCEPT ![doc] = c]
      BY <1>6 DEF IndexText
    <2>2. doc \in Paths \X Contents
      BY <1>2 DEF CatchupInv, CatchupTypeOK, Present
    <2>3. \A d \in Paths \X Contents : store'[d] = IF d = doc THEN c ELSE store[d]
      BY <2>1, <2>2 DEF CatchupInv, CatchupTypeOK
    <2>4. c \in IndexedShas'
      BY <1>2, <2>2, <2>3, NothingIsOutside DEF IndexedShas, InIndex
    <2>5. doc[1] = manifest[c]
      OBVIOUS
    <2> HIDE DEF doc
    <2>6. \A b \in IndexedShas : b \in IndexedShas' \/ (manifest[b] = manifest[c] /\ b # c)
      <3> SUFFICES ASSUME NEW d \in InIndex, store[d] \notin IndexedShas'
                   PROVE  manifest[store[d]] = manifest[c] /\ store[d] # c
        BY DEF IndexedShas
      <3>1. d = doc
        BY <2>3, InIndexTyped DEF CatchupInv, IndexedShas, InIndex
      <3> QED BY <3>1, <2>4, <2>5 DEF CatchupInv, StampsRegistered
    <2>7. ASSUME NEW b \in OpenTexts' PROVE b \in OpenTexts /\ b # c
      <3>1. b \in Contents \ Blank /\ b \notin IndexedShas' /\ b # c
        BY <2>7, <2>4 DEF OpenTexts
      <3>2. /\ Ingestable(manifest[b]) /\ Present(manifest[b])
            /\ ~Superseded(manifest[b])
        BY <2>7, <1>1 DEF OpenTexts, Ingestable, Present, Superseded
      <3>3. manifest[b] # manifest[c]
        BY <3>1, <3>2, <1>2 DEF Superseded
      <3> QED BY <3>1, <3>2, <3>3, <2>6 DEF OpenTexts
    <2> QED BY <1>1, <1>3, <2>7 DEF Unaccounted
  <1> QED BY <1>4, <1>5, <1>6

LEMMA ItemBounds ==
  ASSUME CatchupInv, OpenBounded, NEW c \in todo \ Idle, ProcessItem(c)
  PROVE  OpenBounded'
  <1>1. /\ calm' = calm
        /\ report'.remaining = report.remaining /\ report'.dead \in Nat
        /\ report'.dead >= report.dead
        /\ ItemFails(c) => report'.dead = report.dead + 1
    BY DEF ProcessItem, TombstoneGone, RaiseGone, SkipBlank, IndexText, ItemFails,
           ItemEnds, CatchupInv, CatchupTypeOK
  <1> SUFFICES ASSUME calm
               PROVE  Cardinality(Unaccounted)' <= report'.remaining + report'.dead
    BY <1>1 DEF OpenBounded
  <1>2. /\ Unaccounted' \subseteq Unaccounted \cup {c}
        /\ ~ItemFails(c) => Unaccounted' \subseteq Unaccounted
    BY ItemOpens
  <1>3. /\ report.remaining \in Nat /\ report.dead \in Nat
        /\ Cardinality(Unaccounted) \in Nat
        /\ Cardinality(Unaccounted) <= report.remaining + report.dead
    BY OpenTextsFinite DEF OpenBounded, CatchupInv, CatchupTypeOK
  <1>4. /\ IsFiniteSet(Unaccounted \cup {c})
        /\ Cardinality(Unaccounted \cup {c}) \in Nat
        /\ Cardinality(Unaccounted \cup {c}) <= Cardinality(Unaccounted) + 1
    <2>1. c \in Unaccounted => Unaccounted \cup {c} = Unaccounted
      OBVIOUS
    <2>2. c \notin Unaccounted => Cardinality(Unaccounted \cup {c}) = Cardinality(Unaccounted) + 1
      BY OpenTextsFinite, FS_AddElement
    <2>3. IsFiniteSet(Unaccounted \cup {c})
      BY OpenTextsFinite, FS_AddElement
    <2> QED BY <1>3, <2>1, <2>2, <2>3
  <1>5. /\ Cardinality(Unaccounted') \in Nat
        /\ Cardinality(Unaccounted') <= Cardinality(Unaccounted) + 1
        /\ ~ItemFails(c) => Cardinality(Unaccounted') <= Cardinality(Unaccounted)
    BY <1>2, <1>3, <1>4, OpenTextsFinite, FS_Subset, FS_CardinalityType
  <1>6. Cardinality(Unaccounted)' = Cardinality(Unaccounted')
    OBVIOUS
  <1> QED BY <1>1, <1>3, <1>5, <1>6

LEMMA BoundKept ==
  CatchupInv /\ OpenBounded /\ [CatchupNext]_catchupVars => OpenBounded'
  <1> SUFFICES ASSUME CatchupInv, OpenBounded, [CatchupNext]_catchupVars PROVE OpenBounded'
    OBVIOUS
  <1>1. CASE EditTree
    BY <1>1 DEF EditTree, OpenBounded
  <1>2. CASE BeginBatch
    BY <1>2, BeginBounds
  <1>3. ASSUME NEW c \in todo \ Idle, ProcessItem(c) PROVE OpenBounded'
    BY <1>3, ItemBounds
  <1>4. CASE EndBatch \/ RestartLoop \/ UNCHANGED catchupVars
    <2>1. UNCHANGED <<tree, manifest, store, report, calm>> /\ UnderWay' = UnderWay
      BY <1>4 DEF EndBatch, RestartLoop, catchupVars, UnderWay, Idle
    <2>2. IndexedShas' = IndexedShas
      BY <2>1 DEF IndexedShas, InIndex
    <2>3. Unaccounted' = Unaccounted
      BY <2>1, <2>2 DEF Unaccounted, OpenTexts, Ingestable, Present, Superseded
    <2>4. Cardinality(Unaccounted)' = Cardinality(Unaccounted')
      OBVIOUS
    <2> QED BY <2>1, <2>3, <2>4 DEF OpenBounded
  <1> QED BY <1>1, <1>2, <1>3, <1>4 DEF CatchupNext, BatchStep

LEMMA BoundInitial == CatchupInit => OpenBounded
  BY DEF CatchupInit, OpenBounded

(* What the report of a pass says remains, and what it counts as dead, is never less than
   what is left to do, whatever the batch and however many contents share the index: an
   operator who reads the two numbers does not underestimate the backlog. *)
THEOREM RemainderIsTrue == CatchupSpec => []ReportBoundsTheRest
  <1>1. CatchupInv /\ OpenBounded => ReportBoundsTheRest
    <2> SUFFICES ASSUME OpenBounded, JustEnded
                 PROVE  Cardinality(OpenTexts) <= report.remaining + report.dead
      BY DEF ReportBoundsTheRest
    <2>1. Unaccounted = OpenTexts
      BY DEF JustEnded, Unaccounted, UnderWay
    <2> QED BY <2>1 DEF JustEnded, OpenBounded
  <1> QED BY <1>1, BoundInitial, BoundKept, CatchupInvariance, PTL DEF CatchupSpec

(* The safe half of BacklogDrains: a document leaves the index by a pass only if the file
   of its path is gone, and what is registered stays registered for the same path, so
   that what the passes have drained does not have to be drained again. *)
THEOREM DrainedStays ==
  CatchupSpec => [][/\ \A d \in InIndex : Present(d[1]) => store'[d] # Nothing
                    /\ \A c \in Contents : manifest[c] # Nothing => manifest'[c] = manifest[c]
                   ]_catchupVars
  <1> DEFINE Kept == /\ \A d \in InIndex : Present(d[1]) => store'[d] # Nothing
                     /\ \A c \in Contents : manifest[c] # Nothing
                                              => manifest'[c] = manifest[c]
  <1>1. ASSUME CatchupInv, CatchupNext PROVE Kept
    <2>1. CASE EditTree \/ EndBatch \/ RestartLoop
      BY <2>1 DEF EditTree, EndBatch, RestartLoop, InIndex
    <2>2. CASE BeginBatch
      <3>1. manifest' = RefreshedManifest /\ store' = store
        BY <2>2 DEF BeginBatch
      <3> QED BY <3>1, <1>1, RefreshRegisters DEF InIndex
    <2>3. ASSUME NEW c \in todo \ Idle, ProcessItem(c) PROVE Kept
      <3>1. manifest' = manifest
        BY <2>3 DEF ProcessItem, TombstoneGone, RaiseGone, SkipBlank, IndexText, ItemFails,
                    ItemEnds
      <3>2. ASSUME NEW d \in InIndex, Present(d[1]) PROVE store'[d] # Nothing
        <4>1. /\ d \in Paths \X Contents /\ store[d] # Nothing /\ c # Nothing
              /\ store \in [Paths \X Contents -> Contents \cup {Nothing}]
          BY <1>1, NothingIsOutside DEF InIndex, CatchupInv, CatchupTypeOK, Idle
        <4>2. CASE TombstoneGone(c)
          BY <4>1, <4>2, <3>2 DEF TombstoneGone
        <4>3. CASE IndexText(c)
          BY <4>1, <4>3 DEF IndexText
        <4>4. CASE RaiseGone(c) \/ SkipBlank(c) \/ ItemFails(c)
          BY <4>1, <4>4 DEF RaiseGone, SkipBlank, ItemFails
        <4> QED BY <2>3, <4>2, <4>3, <4>4 DEF ProcessItem
      <3> QED BY <3>1, <3>2
    <2> QED BY <1>1, <2>1, <2>2, <2>3 DEF CatchupNext, BatchStep
  <1> HIDE DEF Kept
  <1>2. CatchupInv /\ [CatchupNext]_catchupVars => [Kept]_catchupVars
    BY <1>1
  <1>3. CatchupSpec => [][Kept]_catchupVars
    BY <1>2, CatchupInvariance, PTL DEF CatchupSpec
  <1> QED BY <1>3 DEF Kept

=============================================================================
