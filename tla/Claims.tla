-------------------------------- MODULE Claims --------------------------------
(***************************************************************************)
(* Contradictions between attributed claims (query.py) and the worklist of *)
(* claims one speaker made to different audiences (audience.py,            *)
(* nli/pairing.py).                                                        *)
(*                                                                         *)
(* Documents are indexed one after the other; a query takes at most `size` *)
(* of them, in an order that is not specified, and pairs their claims.     *)
(* Subjects, predicates, objects, spans and labels are their normal forms. *)
(* A path is its folders and the parts of its leaf: the name, then formats *)
(* and copy marks in the order in which they were put on.                  *)
(***************************************************************************)
EXTENDS Integers, Sequences, FiniteSets

CONSTANTS Documents,   \* [id, path, claims]: path a [dirs, leaf], claims a set of
                       \* [subject, predicate, object, speaker, polarity, span]
          FormatDirs,  \* folders that only say how a document is encoded
          FormatExts,  \* extensions that do
          CopyMarks,   \* what _STEM_SUFFIX_RE strips: "ocr", "copy", "(2)"...
          Aliases,     \* a function: the label of a person -> the canonical one
          Negations,   \* predicates that carry a negation
          Audience(_), \* classify_audience of a path, or NoOne
          NoOne,       \* no speaker, no audience, no span
          Tokens,      \* Tokens[w]: the tokens of subject or object w
          QuerySize,   \* size: the documents a query takes
          MaxPairs     \* max_pairs of the worklist

ASSUME ClaimsAssumption ==
    /\ IsFiniteSet(Documents) /\ MaxPairs \in Nat
    /\ \A w \in DOMAIN Tokens : IsFiniteSet(Tokens[w])
    /\ \A d \in Documents :
         /\ IsFiniteSet(d.claims)
         /\ \A c \in d.claims : {c.subject, c.object} \subseteq DOMAIN Tokens

VARIABLES
    indexed,   \* the documents in the index
    asked,     \* the documents that were in the index at the last query...
    fetched    \* ...and those it got

claimsVars == <<indexed, asked, fetched>>

(* _doc_stem: what remains of a path when everything that only says how it is
   encoded is stripped.  Extensions go first, copy marks after them. *)
TrimEnd(parts, S) ==
    LET kept == {i \in DOMAIN parts : parts[i] \notin S}
        last == IF kept = {} THEN 0 ELSE CHOOSE i \in kept : \A j \in kept : j <= i
    IN  SubSeq(parts, 1, last)

Stem(path) ==
    LET Meaningful(dir) == dir \notin FormatDirs
    IN  <<SelectSeq(path.dirs, Meaningful),
          TrimEnd(TrimEnd(path.leaf, FormatExts), CopyMarks)>>

(* _canonical_speaker *)
Person(label) == IF label \in DOMAIN Aliases THEN Aliases[label] ELSE label

(* The claims of some documents, each with the document it comes from. *)
ClaimRefs(docs) ==
    UNION {{[doc |-> d.id, path |-> d.path, claim |-> c] : c \in d.claims} : d \in docs}

(* Are the two from one text: one document, two encodings of one, or one quoted
   sentence? *)
SameRepresentation(a, b) ==
    \/ a.doc = b.doc
    \/ Stem(a.path) = Stem(b.path)
    \/ a.claim.span # NoOne /\ a.claim.span = b.claim.span

SameGroup(a, b) ==
    a.claim.subject = b.claim.subject /\ a.claim.predicate = b.claim.predicate

ConflictKind(a, b) ==
    IF a.claim.polarity # b.claim.polarity THEN "opposite_polarity"
    ELSE IF a.claim.object # b.claim.object THEN "conflicting_object" ELSE "none"

(* The guards of the loop in contradictions. *)
Conflict(a, b) ==
    /\ SameGroup(a, b)
    /\ ConflictKind(a, b) # "none"
    /\ ~SameRepresentation(a, b)
    /\ ~ /\ ConflictKind(a, b) = "opposite_polarity"
         /\ a.claim.predicate \in Negations
         /\ a.claim.object # b.claim.object

SameLabel(a, b) == a.claim.speaker # NoOne /\ a.claim.speaker = b.claim.speaker
SameSpeaker(a, b) ==
    a.claim.speaker # NoOne /\ b.claim.speaker # NoOne
    /\ Person(a.claim.speaker) = Person(b.claim.speaker)

(* The three tiers of goldberg contradictions. *)
Tier(a, b) ==
    IF ~SameSpeaker(a, b) THEN "contested"
    ELSE IF ConflictKind(a, b) = "opposite_polarity" THEN "finding" ELSE "lead"

Contradictions(docs) ==
    {[tier |-> Tier(p[1], p[2]), claims |-> {p[1], p[2]}] :
        p \in {q \in ClaimRefs(docs) \X ClaimRefs(docs) : Conflict(q[1], q[2])}}

-----------------------------------------------------------------------------
(* The worklist of nli/pairing. *)

TokensOf(ref) == Tokens[ref.claim.subject] \cup Tokens[ref.claim.object]

(* lexical_similarity, as a fraction. *)
Similarity(a, b) ==
    [num |-> Cardinality(TokensOf(a) \cap TokensOf(b)),
     den |-> Cardinality(TokensOf(a) \cup TokensOf(b))]

AtLeast(s, t) == s.num * t.den >= t.num * s.den

MinSimilarity == [num |-> 1, den |-> 5]

(* The claims a speaker made across the seam, and similar enough. *)
SeamPairs(refs) ==
    LET seam == {r \in refs : Audience(r.path) # NoOne /\ r.claim.speaker # NoOne}
        Across(a, b) == /\ Person(a.claim.speaker) = Person(b.claim.speaker)
                        /\ Audience(a.path) # Audience(b.path)
                        /\ Similarity(a, b).den # 0
                        /\ AtLeast(Similarity(a, b), MinSimilarity)
    IN  {{p[1], p[2]} : p \in {q \in seam \X seam : Across(q[1], q[2])}}

Score(pair) == CHOOSE s \in {Similarity(a, b) : a, b \in pair} :
                  \E a, b \in pair : a # b /\ s = Similarity(a, b)

(* The candidates by rank: the most similar first, those of one rank together, and
   of a rank that does not fit as a whole as many as fit.  Which ones depends on
   the order of the claims. *)
Better(pairs, p) == {q \in pairs : ~AtLeast(Score(p), Score(q))}

WorklistsUnranked(pairs) ==
    {W \in SUBSET pairs :
        Cardinality(W) = IF Cardinality(pairs) <= MaxPairs THEN Cardinality(pairs) ELSE MaxPairs}
Worklists(pairs) ==
    {W \in SUBSET pairs :
        /\ Cardinality(W) = IF Cardinality(pairs) <= MaxPairs
                            THEN Cardinality(pairs) ELSE MaxPairs
        /\ \A p \in W : Better(pairs, p) \subseteq W}

-----------------------------------------------------------------------------
ClaimsInit == indexed = {} /\ asked = {} /\ fetched = {}

IndexDocument ==
    /\ \E d \in Documents \ indexed : indexed' = indexed \cup {d}
    /\ UNCHANGED <<asked, fetched>>

(* _fetch_claim_refs: the documents that have a claim, up to the size of the query;
   Elasticsearch chooses which. *)
Ask ==
    LET matching == {d \in indexed : d.claims # {}}
    IN  /\ asked' = matching
        /\ \E F \in SUBSET matching :
             /\ Cardinality(F) = IF Cardinality(matching) <= QuerySize
                                 THEN Cardinality(matching) ELSE QuerySize
             /\ fetched' = F
        /\ UNCHANGED indexed

ClaimsNext == IndexDocument \/ Ask

ClaimsSpec == ClaimsInit /\ [][ClaimsNext]_claimsVars

-----------------------------------------------------------------------------
(* The query got every document: the corpus is smaller than its size. *)
Complete == fetched = asked

(* A shift of account: one person, under whatever labels, asserts and denies the
   same of the same subject, in texts that are not copies of one another. *)
Shift(a, b) ==
    /\ a.claim.speaker # NoOne /\ b.claim.speaker # NoOne
    /\ Person(a.claim.speaker) = Person(b.claim.speaker)
    /\ \A part \in {"subject", "predicate", "object"} : a.claim[part] = b.claim[part]
    /\ a.claim.polarity # b.claim.polarity
    /\ a.doc # b.doc /\ Stem(a.path) # Stem(b.path)
    /\ a.claim.span = NoOne \/ a.claim.span # b.claim.span

(* Every shift of account among the documents of a query is a finding, whatever copies
   and labels surround it, unless the query was cut at its size; and a cut query
   never reports what the whole would not.  A finding that is not such a shift
   can only be about different objects of a predicate without a negation. *)
ShiftsAreFound ==
    LET found == {r.claims : r \in {x \in Contradictions(fetched) : x.tier = "finding"}}
        shifts == {{p[1], p[2]} : p \in {q \in ClaimRefs(asked) \X ClaimRefs(asked) :
                                            Shift(q[1], q[2])}}
    IN  /\ Complete => shifts \subseteq found
        /\ \A pair \in found \ shifts : \A a, b \in pair :
             a # b => /\ a.claim.object # b.claim.object
                      /\ a.claim.predicate \notin Negations
        /\ Contradictions(fetched) \subseteq Contradictions(asked)

(* What contradictions finds between two audiences also leads the worklist of the
   second detector: such a pair is about the same words, so that no pair is more
   similar, and it is left out only for as many as similar as it. *)
FindingsLeadTheWorklist ==
    LET pairs == SeamPairs(ClaimRefs(fetched))
        same == {p \in pairs : Score(p).num = Score(p).den}
    IN  \A r \in Contradictions(fetched) :
          /\ r.tier = "finding"
          /\ \A a, b \in r.claims : a # b =>
               /\ a.claim.object = b.claim.object /\ TokensOf(a) # {}
               /\ {Audience(a.path), Audience(b.path)} \cap {NoOne} = {}
               /\ Audience(a.path) # Audience(b.path)
          => /\ r.claims \in same
             /\ Cardinality(same) <= MaxPairs =>
                  \A W \in Worklists(pairs) : r.claims \in W

=============================================================================
