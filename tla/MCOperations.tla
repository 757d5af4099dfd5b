----------------------------- MODULE MCOperations -----------------------------
(* The operator's side of the system: seven components that do not share state, one
   after the choice of a scene.  The components that are not on the scene stay in one
   initial state. *)
EXTENDS Grounding, Claims, CatchupBatch, DerivedStore, Doctor, Alerting, Docling

VARIABLE scene

Scenes == {"grounding", "claims", "catchup", "derived", "doctor", "alert", "docling"}

operationsVars == <<scene, groundingVars, claimsVars, catchupVars, derivedVars, doctorVars,
                    alertVars, doclingVars>>

(* A body of law: two Acts, one with a short name that is a part of the long one, ... *)
MCSurfaces == << [words |-> <<"mca", "1980">>, act |-> "MCA", chars |-> 8],
                 [words |-> <<"cja", "1988">>, act |-> "CJA", chars |-> 8],
                 [words |-> <<"mca">>, act |-> "MCA", chars |-> 3] >>
MCWords == {"mca", "cja", "1980", "1988", "s7", "N", "R", "O", "q", "r", "-"}
MCSections == {"s7"}
MCCites == {"N", "R"}
MCCiteKey == [N |-> "ncit", R |-> "rule"]
MCOpeners == {"O"}
MCPassages == {"q", "r"}

(* ... some of it held, some of it repealed. *)
LiveN == [title |-> <<"N">>, stem |-> {}, passages |-> {"q"}, repealed |-> FALSE]
DeadN == [title |-> <<"-">>, stem |-> {<<"cite", "ncit">>}, passages |-> {"r"}, repealed |-> TRUE]
LiveMca == [title |-> <<"mca", "s7">>, stem |-> {}, passages |-> {"r", "q"}, repealed |-> FALSE]
MCLibraries == {{}, {LiveN, DeadN}, {DeadN, LiveMca}, {LiveN, LiveMca}}

MCDirs == <<"sent", "sent_bundles", "reports", "analysis">>
DirOrder == [analysis |-> 1, sent |-> 2, sent_bundles |-> 3, reports |-> 4]
MCPathOrder(p, q) == DirOrder[p[1]] < DirOrder[q[1]] \/ (p[1] = q[1] /\ p[2] < q[2])
Upto(n, words) == UNION {[1..k -> words] : k \in 1..n}
MCFileTexts ==
    << Upto(2, {"mca", "s7", "N", "q"}) \cup [1..3 -> {"mca", "s7", "q", "cja"}]
         \cup [1..4 -> {"mca", "1980", "s7"}],
       {<<"N", "q">>, <<"N", "r">>, <<"R", "r">>, <<"O">>, <<"mca", "s7", "-", "-", "q">>} >>

(* Six documents: a scan and its transcript, statements of one person under two labels
   to two audiences, and one without claims. *)
Path(dirs, leaf) == [dirs |-> dirs, leaf |-> leaf]
Claim(predicate, object, speaker, polarity, span) ==
    [subject |-> "s", predicate |-> predicate, object |-> object, speaker |-> speaker,
     polarity |-> polarity, span |-> span]
MCDocuments == {
    [id |-> 1, path |-> Path(<<"court">>, <<"a", "pdf">>),
     claims |-> {Claim("did", "o", "x", TRUE, "none")}],
    [id |-> 2, path |-> Path(<<"court", "ocr_output">>, <<"a", "ocr", "txt">>),
     claims |-> {Claim("did", "o", "x", FALSE, "q1")}],
    [id |-> 3, path |-> Path(<<"police">>, <<"b", "md">>),
     claims |-> {Claim("did", "o", "y", FALSE, "none"), Claim("didnot", "p", "x", TRUE, "none")}],
    [id |-> 4, path |-> Path(<<"court">>, <<"c", "(2)">>),
     claims |-> {Claim("did", "w", "x", FALSE, "none"), Claim("didnot", "o", "y", FALSE, "none"),
                 Claim("didnot", "p", "y", FALSE, "none")}],
    [id |-> 5, path |-> Path(<<"police">>, <<"d">>),
     claims |-> {Claim("did", "o", "none", FALSE, "q1"), Claim("did", "o", "x", TRUE, "q1"),
                 Claim("did", "o", "x", FALSE, "q2")}],
    [id |-> 6, path |-> Path(<<"misc">>, <<"e">>), claims |-> {}] }
MCAliases == [y |-> "x"]
MCAudience(path) == IF path.dirs[1] = "misc" THEN "none" ELSE path.dirs[1]
MCTokens == [s |-> {"s"}, o |-> {}, p |-> {"p", "r", "t"}, w |-> {"s1", "s2", "s3", "s4", "s5"}]

MCFacts == [docs : {0, 1}, events : {0, 1}, failed : 0..2, recent : {0, 1},
            skipped : BOOLEAN, incident : BOOLEAN, missing : BOOLEAN]

MCInit ==
    /\ scene \in Scenes
    /\ GroundingInit /\ (IF scene = "grounding" THEN TRUE ELSE held = {})
    /\ ClaimsInit
    /\ CatchupInit
    /\ DerivedInit /\ raw["f"] = "t" /\ (IF scene = "derived" THEN TRUE ELSE raw["g"] = "t")
    /\ DoctorInit /\ Cardinality(Sights \ up) <= (IF scene = "doctor" THEN 1 ELSE 0)
    /\ AlertInit /\ (IF scene = "alert" THEN TRUE ELSE facts = CHOOSE f \in MCFacts : TRUE)
    /\ DoclingInit

On(name) == scene = name /\ UNCHANGED scene

MCNext ==
    \/ /\ On("grounding") /\ GroundingNext
       /\ UNCHANGED <<claimsVars, catchupVars, derivedVars, doctorVars, alertVars, doclingVars>>
    \/ /\ On("claims") /\ ClaimsNext
       /\ UNCHANGED <<groundingVars, catchupVars, derivedVars, doctorVars, alertVars, doclingVars>>
    \/ /\ On("catchup") /\ CatchupNext
       /\ UNCHANGED <<groundingVars, claimsVars, derivedVars, doctorVars, alertVars, doclingVars>>
    \/ /\ On("derived") /\ DerivedNext
       /\ UNCHANGED <<groundingVars, claimsVars, catchupVars, doctorVars, alertVars, doclingVars>>
    \/ /\ On("doctor") /\ DoctorNext
       /\ UNCHANGED <<groundingVars, claimsVars, catchupVars, derivedVars, alertVars, doclingVars>>
    \/ /\ On("alert") /\ AlertNext
       /\ UNCHANGED <<groundingVars, claimsVars, catchupVars, derivedVars, doctorVars, doclingVars>>
    \/ /\ On("docling") /\ DoclingNext
       /\ UNCHANGED <<groundingVars, claimsVars, catchupVars, derivedVars, doctorVars, alertVars>>

CatchupStep ==
    /\ scene = "catchup" /\ UNCHANGED scene
    /\ BatchStep
    /\ UNCHANGED <<groundingVars, claimsVars, derivedVars, doctorVars, alertVars, doclingVars>>

MCSpec == MCInit /\ [][MCNext]_operationsVars /\ WF_operationsVars(CatchupStep)
=============================================================================
