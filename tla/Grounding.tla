------------------------------ MODULE Grounding ------------------------------
(***************************************************************************)
(* ground-check: is every authority the corpus cites held, and does every  *)
(* quotation stand in the text held for what it is cited to?               *)
(*                                                                         *)
(* The report is built file by file, in the order of the walk.  A primary  *)
(* text is reduced to what identifies it (its title, and the citation in   *)
(* its file name), the passages that can be found in it, and whether it is *)
(* repealed.  Not here: the wording of a finding, and how the report is    *)
(* printed.                                                                *)
(***************************************************************************)
EXTENDS Citations, Integers

CONSTANTS Libraries,  \* what may be under authorities_primary_text/: sets of
                      \* [title: text, stem: keys, passages, repealed]
          Dirs,       \* the citing directories, in the order of the walk
          PathOrder(_, _), \* the order of paths as strings: a path is <<dir, n>>
          FileTexts   \* FileTexts[n]: the texts that the n-th file scanned may have

ASSUME GroundingAssumption == FileTexts \in Seq(SUBSET Seq(Words))

VARIABLES
    held,       \* the primary texts
    pc,         \* "selftest", "scan" or "refused"
    files,      \* the files scanned, a sequence of [path, marked, text]
    findings,   \* report.findings, citation-without-source excepted
    unheld      \* unheld_refs: the keys cited without a source, with what is known
                \* of each: [files, top]

groundingVars == <<held, pc, files, findings, unheld>>

SERVED == 3
REPORTS == 1
ANALYSIS == 0
LAYER_OTHER == -1

(* layer_of.  marked says that the name has a marker of what was really sent. *)
LayerOf(file) ==
    IF file.path[1] = "sent" THEN SERVED
    ELSE IF file.path[1] = "sent_bundles" /\ file.marked THEN SERVED
    ELSE IF file.path[1] = "reports" THEN REPORTS
    ELSE ANALYSIS

(* load_primary_text, PrimaryIndex: a text is held for the authorities that
   identify it, not for those it cites. *)
SubjectKeys(primary) == AuthorityKeys(primary.title) \cup primary.stem
HeldFor(key, texts) == {p \in texts : key \in SubjectKeys(p)}
Repealed(key, texts) ==
    HeldFor(key, texts) # {} /\ \A p \in HeldFor(key, texts) : p.repealed

(* classify_quote *)
VerdictOfAnyText(quote, key, texts) ==
    LET prims == HeldFor(key, texts)
    IN  IF prims = {} THEN "AMBER"
        ELSE IF \E p \in prims : quote.passage \in p.passages THEN "GREEN" ELSE "RED"
Verdict(quote, key, texts) ==
    LET prims == HeldFor(key, texts)
    IN  IF prims = {} THEN "AMBER"
        ELSE IF \E p \in prims : ~p.repealed /\ quote.passage \in p.passages THEN "GREEN"
        ELSE "RED"

(* classify_quote_near: GREEN by any authority near, else what the nearest says. *)
VerdictNear(quote, near, texts) ==
    IF \E a \in near : Verdict(quote, a.key, texts) = "GREEN"
    THEN "GREEN"
    ELSE Verdict(quote, NearestCited(quote, near).key, texts)

Finding(kind, file, key, verdict, at) ==
    [kind |-> kind, layer |-> LayerOf(file), file |-> file.path, key |-> key,
     verdict |-> verdict, at |-> at, blast |-> 0]

QuoteFindings(file, texts) ==
    LET refs == Authorities(file.text)
        near == [q \in Quotes(file.text) |-> NearAuthorities(q, refs)]
    IN  {Finding("quote", file, <<>>, VerdictNear(q, near[q], texts), q.start) :
            q \in {quote \in DOMAIN near : near[quote] # {}}}

FileFindings(file, texts) ==
    QuoteFindings(file, texts)
    \cup {Finding("malformed", file, <<>>, "none", i) : i \in Malformed(file.text)}
    \cup {Finding("repealed", file, key, "RED", 0) :
            key \in {k \in AuthorityKeys(file.text) : Repealed(k, texts)}}

UnheldKeys(file, texts) == {k \in AuthorityKeys(file.text) : HeldFor(k, texts) = {}}

(* One file's citations without a source, added to those of the files before. *)
AccumulateFirst(acc, file, texts) ==
    [k \in DOMAIN acc \cup UnheldKeys(file, texts) |->
        LET old == IF k \in DOMAIN acc THEN acc[k]
                   ELSE [files |-> {}, top |-> LayerOf(file)]
        IN  IF k \notin UnheldKeys(file, texts) THEN old
            ELSE [old EXCEPT !.files = @ \cup {file.path}]]
Accumulate(acc, file, texts) ==
    [k \in DOMAIN acc \cup UnheldKeys(file, texts) |->
        LET old == IF k \in DOMAIN acc THEN acc[k] ELSE [files |-> {}, top |-> LAYER_OTHER]
        IN  IF k \notin UnheldKeys(file, texts) THEN old
            ELSE [files |-> old.files \cup {file.path},
                  top   |-> IF LayerOf(file) > old.top THEN LayerOf(file) ELSE old.top]]

FirstPath(paths) == CHOOSE p \in paths : \A q \in paths : p = q \/ PathOrder(p, q)

(* What check_root adds at the end, one finding for each key. *)
WithoutSource(acc) ==
    {[kind |-> "unheld", layer |-> acc[k].top, file |-> FirstPath(acc[k].files),
      key |-> k, verdict |-> "none", at |-> 0, blast |-> Cardinality(acc[k].files)] :
        k \in DOMAIN acc}

Report == findings \cup WithoutSource(unheld)

Severity(f) ==
    IF f.kind \in {"unheld", "repealed", "malformed"} \/ f.verdict = "RED" THEN 2
    ELSE IF f.verdict = "AMBER" THEN 1 ELSE 0

(* sort_key: does finding f come before finding g?  Served first, then severe, then
   widely relied upon, then by path. *)
RowBefore(f, g) ==
    \/ f.layer > g.layer
    \/ f.layer = g.layer /\ Severity(f) > Severity(g)
    \/ f.layer = g.layer /\ Severity(f) = Severity(g) /\ f.blast > g.blast
    \/ /\ f.layer = g.layer /\ Severity(f) = Severity(g) /\ f.blast = g.blast
       /\ PathOrder(f.file, g.file)

(* The exit code of ground-check, for a scheduler or a hook to gate on. *)
ExitCode ==
    IF \E f \in Report : \/ f.kind = "quote" /\ f.verdict = "RED"
                         \/ f.kind \in {"unheld", "repealed"}
    THEN 1 ELSE 0

(* run_selftest: a planted text, one quotation of it and one it does not have. *)
SelfTest(word, good, bad) ==
    LET planted == {[title |-> <<word>>, stem |-> {}, passages |-> {good}, repealed |-> FALSE]}
        Of(q) == QuoteFindings([path |-> <<"analysis", 1>>, marked |-> FALSE,
                                text |-> <<word, q>>], planted)
    IN  /\ {f.verdict : f \in Of(good)} = {"GREEN"}
        /\ {f.verdict : f \in Of(bad)} = {"RED"}

-----------------------------------------------------------------------------
GroundingInit ==
    /\ held \in Libraries
    /\ pc = "selftest"
    /\ files = <<>> /\ findings = {} /\ unheld = <<>>

(* Nothing is reported unless the planted quotations get their verdicts. *)
RunSelfTest ==
    /\ pc = "selftest"
    /\ pc' = IF \A w \in Cites : \A good, bad \in Passages :
                    good # bad => SelfTest(w, good, bad)
             THEN "scan" ELSE "refused"
    /\ UNCHANGED <<held, files, findings, unheld>>

(* The next file of the walk: directories in their order, paths in theirs. *)
Follows(path) ==
    IF files = <<>> THEN path[2] = 1
    ELSE LET last == files[Len(files)].path
             At(d) == CHOOSE i \in DOMAIN Dirs : Dirs[i] = d
         IN  \/ At(path[1]) > At(last[1]) /\ path[2] = 1
             \/ path[1] = last[1] /\ path[2] = last[2] + 1

Scan ==
    /\ pc = "scan" /\ Len(files) < Len(FileTexts)
    /\ \E dir \in {Dirs[i] : i \in DOMAIN Dirs}, n \in 1..(Len(files) + 1),
          marked \in BOOLEAN, text \in FileTexts[Len(files) + 1] :
         LET file == [path |-> <<dir, n>>, marked |-> marked, text |-> text]
         IN  /\ Follows(file.path)
             /\ dir # "sent_bundles" => ~marked
             /\ files' = Append(files, file)
             /\ findings' = findings \cup FileFindings(file, held)
             /\ unheld' = Accumulate(unheld, file, held)
    /\ UNCHANGED <<held, pc>>

GroundingNext == RunSelfTest \/ Scan

GroundingSpec == GroundingInit /\ [][GroundingNext]_groundingVars

-----------------------------------------------------------------------------
Scanned == {files[i] : i \in DOMAIN files}

(* What the report is for, said of the corpus: every authority a file cites is
   held, and in force... *)
CitesHeldLaw(file) ==
    \A key \in AuthorityKeys(file.text) : \E p \in HeldFor(key, held) : ~p.repealed

(* ...and what it quotes near a citation stands in a text in force of something
   cited there. *)
QuotesHeldText(file) ==
    \A q \in Quotes(file.text) :
        LET near == NearAuthorities(q, Authorities(file.text))
        IN  near # {} => \E a \in near : \E p \in HeldFor(a.key, held) :
                            ~p.repealed /\ q.passage \in p.passages

(* Exit code 0, on which a filing may be gated, means that every scanned file cites
   only held law in force and quotes only what it says; and the code is 0 whenever
   that is so.  Three loops and three kinds of finding must agree for it. *)
CleanExitIsGrounded ==
    ExitCode = 0 <=> \A file \in Scanned : CitesHeldLaw(file) /\ QuotesHeldText(file)

(* A fault in a file that was served is the first row of the report, ahead of
   anything else, although citations without a source are gathered over all files
   and ranked by how many rely on them. *)
ServedErrorsComeFirst ==
    (\E file \in Scanned :
        /\ LayerOf(file) = SERVED
        /\ \/ ~CitesHeldLaw(file)
           \/ Malformed(file.text) # {}
           \/ \E f \in QuoteFindings(file, held) : f.verdict = "RED")
    => \A top \in Report :
         (\A f \in Report : f = top \/ ~RowBefore(f, top))
         => top.layer = SERVED /\ Severity(top) = 2

(* In every scanned text the names of Acts, and the sections of them, are read as
   ReadsActs says. *)
ActsAreRead == \A file \in Scanned : ReadsActs(file.text)

=============================================================================
