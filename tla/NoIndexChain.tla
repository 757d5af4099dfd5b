---------------------------- MODULE NoIndexChain ----------------------------
(***************************************************************************)
(* How a file's metadata chain is resolved: the metadata.yaml of each      *)
(* folder from the root down, then the file's own sidecar.  Ordinary       *)
(* fields fail open: a layer that is not valid is dropped and the document *)
(* is ingested without its values.  The exclusion of a file (no_index)     *)
(* fails closed: it is folded on its own over the raw layers, dropped ones *)
(* included, and anything that looks like an exclusion is one.             *)
(***************************************************************************)
EXTENDS Naturals, Sequences

CONSTANTS Depth,       \* layers in the chain
          Texts,       \* reasons and authors
          Layers,      \* what a metadata file may say: a set of mappings
          Unset,       \* a key that is not there, or (not no_index) has no value
          Generic,     \* the reason given when no layer gave one
          Absent,      \* no such metadata file
          Broken,      \* malformed YAML, or not a mapping
          Unreadable   \* not UTF-8, or an I/O error

Categories == {"housekeeping", "legally_obligatory"}

(* A mapping, as far as it matters.  no_index is "unclean" when its value is
   not a boolean, a null included, a typo is a key like "no-index", a stray key is any other
   one outside the vocabulary; author stands for the ordinary fields. *)
Mapping == [no_index : {Unset, "true", "false", "unclean"}, typo : BOOLEAN,
            reason : Texts \cup {Unset}, category : Categories \cup {Unset, "unknown"},
            author : Texts \cup {Unset}, stray : BOOLEAN]

ASSUME ChainAssumption ==
    /\ Depth \in Nat
    /\ Layers \subseteq Mapping
    /\ Unset \notin Texts \cup Categories \cup {"true", "false", "unclean", "unknown"}
    /\ Generic \notin Texts \cup {Unset}
    /\ {Absent, Broken, Unreadable} \cap Layers = {}
    /\ Absent # Broken /\ Absent # Unreadable /\ Broken # Unreadable

VARIABLES
    chain,   \* the layers read so far
    latch,   \* the fold of the exclusion over them
    fields,  \* the fold of the ordinary fields; the exclusion keys, in the end
    errors,  \* the positions of the layers something was recorded about
    pc       \* "reading", "resolved" or "raised"

vars == <<chain, latch, fields, errors, pc>>

Latch == [latched : BOOLEAN, mentioned : BOOLEAN, ambiguous : BOOLEAN,
          unknown_category : BOOLEAN, reason : Texts \cup {Unset},
          categories : SUBSET Categories]

TypeOK ==
    /\ chain \in Seq(Layers \cup {Absent, Broken, Unreadable})
    /\ latch \in Latch
    /\ fields \in [no_index : {Unset, "true", "false"},
                   reason : Texts \cup {Unset, Generic},
                   category : Categories \cup {Unset, "unknown"},
                   author : Texts \cup {Unset}]
    /\ errors \subseteq 1..Len(chain)
    /\ pc \in {"reading", "resolved", "raised"}

Init ==
    /\ chain = <<>>
    /\ latch = [latched |-> FALSE, mentioned |-> FALSE, ambiguous |-> FALSE,
                unknown_category |-> FALSE, reason |-> Unset, categories |-> {}]
    /\ fields = [no_index |-> Unset, reason |-> Unset, category |-> Unset, author |-> Unset]
    /\ errors = {}
    /\ pc = "reading"

-----------------------------------------------------------------------------
(* examine: one mapping, before it may be dropped for its stray keys. *)

Unreasoned(d) == d.no_index = "true" /\ d.reason = Unset
Doubtful(d) == d.typo \/ d.no_index = "unclean" \/ Unreasoned(d)

LatchedByLast(s, d) ==
    IF d.no_index = Unset THEN s.latched \/ d.typo ELSE d.typo \/ d.no_index # "false"
Latched(s, d) == s.latched \/ d.typo \/ d.no_index \in {"true", "unclean"}

Examine(s, d) ==
    [latched |-> Latched(s, d),
     mentioned |-> s.mentioned \/ d.typo \/ d.no_index # Unset,
     ambiguous |-> s.ambiguous \/ Doubtful(d),
     unknown_category |-> s.unknown_category \/ d.category = "unknown",
     reason |-> IF d.no_index = "true" /\ ~Unreasoned(d) THEN d.reason ELSE s.reason,
     categories |-> s.categories \cup ({d.category} \cap Categories)]

(* A value that is not set does not override an inherited one.  What the layer
   says of no_index itself is never read from here. *)
Overlay(old, new) == IF new = Unset THEN old ELSE new
Merged(m, d) == [m EXCEPT !.reason = Overlay(@, d.reason),
                          !.category = Overlay(@, d.category),
                          !.author = Overlay(@, d.author)]

KeptAlways(d) == TRUE
Kept(d) == ~d.stray
Faulty(d) == d.stray \/ Doubtful(d) \/ d.category = "unknown"

-----------------------------------------------------------------------------
SourceBefore == Len(chain)
Source == Len(chain) + 1

Reading == pc = "reading" /\ Len(chain) < Depth

SkipAbsent ==
    /\ Reading
    /\ chain' = Append(chain, Absent)
    /\ UNCHANGED <<latch, fields, errors, pc>>

(* A layer that does not parse governs the subtree: it may have been an
   exclusion. *)
RejectBroken ==
    /\ Reading
    /\ chain' = Append(chain, Broken)
    /\ latch' = [latch EXCEPT !.latched = TRUE, !.mentioned = TRUE, !.ambiguous = TRUE]
    /\ errors' = errors \cup {Source}
    /\ UNCHANGED <<fields, pc>>

ReadMapping(d) ==
    /\ Reading
    /\ chain' = Append(chain, d)
    /\ latch' = Examine(latch, d)
    /\ fields' = IF Kept(d) THEN Merged(fields, d) ELSE fields
    /\ errors' = IF Faulty(d) THEN errors \cup {Source} ELSE errors
    /\ UNCHANGED pc

(* Only YAML errors are caught: the exception leaves resolve_chain, and with it
   the walk of refresh_provenance. *)
ReadRaises ==
    /\ Reading
    /\ chain' = Append(chain, Unreadable)
    /\ pc' = "raised"
    /\ UNCHANGED <<latch, fields, errors>>

-----------------------------------------------------------------------------
(* apply, and the end of resolve_chain *)

ResolvedReasonMerged == IF fields.reason # Unset THEN fields.reason ELSE Generic
ResolvedReason == IF latch.reason # Unset THEN latch.reason ELSE Generic

ResolvedCategoryAnyone ==
    IF "housekeeping" \in latch.categories /\ ~latch.ambiguous
    THEN "housekeeping" ELSE "legally_obligatory"
ResolvedCategory ==
    IF latch.categories = {"housekeeping"} /\ ~latch.ambiguous /\ ~latch.unknown_category
    THEN "housekeeping" ELSE "legally_obligatory"

Resolve ==
    /\ pc = "reading" /\ Len(chain) = Depth
    /\ fields' =
         IF latch.latched
         THEN [fields EXCEPT !.no_index = "true", !.reason = ResolvedReason,
                             !.category = ResolvedCategory]
         ELSE [fields EXCEPT !.no_index = IF latch.mentioned THEN "false" ELSE Unset]
    /\ pc' = "resolved"
    /\ UNCHANGED <<chain, latch, errors>>

Next ==
    \/ SkipAbsent \/ RejectBroken \/ ReadRaises
    \/ \E d \in Layers : ReadMapping(d)
    \/ Resolve

Spec == Init /\ [][Next]_vars

-----------------------------------------------------------------------------
(* Properties *)

Excludes(d) == d.typo \/ d.no_index \in {"true", "unclean"}
Excluded == pc = "resolved" /\ fields.no_index = "true"
Positions == 1..Len(chain)
IsMapping(i) == chain[i] \in Layers

(* A file is excluded exactly when some layer tried to, or could have: whatever
   a narrower layer says, whatever else is wrong with that layer, and however
   the layers are ordered. *)
ExclusionWins ==
    pc = "resolved" =>
        (fields.no_index = "true" <=>
            \E i \in Positions : chain[i] = Broken \/ (IsMapping(i) /\ Excludes(chain[i])))

(* An exclusion is mere housekeeping only when a layer says so and nothing in
   the chain gives reason to doubt it; else its breach is an incident. *)
SeverityIsSafe ==
    Excluded =>
        (fields.category = "housekeeping" <=>
            /\ \E i \in Positions : IsMapping(i) /\ chain[i].category = "housekeeping"
            /\ \A i \in Positions :
                 /\ chain[i] # Broken
                 /\ IsMapping(i) => /\ chain[i].category \in {Unset, "housekeeping"}
                                    /\ ~Doubtful(chain[i]))

(* The reason on record is the one of the narrowest layer that excluded the file
   and gave one; when none did, something was recorded as an error. *)
ReasonIsOfTheExclusion ==
    LET Reasoned(i) == IsMapping(i) /\ chain[i].no_index = "true" /\ chain[i].reason # Unset
    IN  Excluded =>
          \/ fields.reason = Generic /\ errors # {} /\ \A i \in Positions : ~Reasoned(i)
          \/ \E i \in Positions :
               /\ Reasoned(i) /\ fields.reason = chain[i].reason
               /\ \A k \in Positions : k > i => ~Reasoned(k)

(* An ordinary field has the value of the narrowest layer that sets it among
   those that were not dropped, excluded file or not. *)
FieldsFailOpen ==
    LET Sets(i) == IsMapping(i) /\ ~chain[i].stray /\ chain[i].author # Unset
    IN  \/ fields.author = Unset /\ \A i \in Positions : ~Sets(i)
        \/ \E i \in Positions :
             /\ Sets(i) /\ fields.author = chain[i].author
             /\ \A k \in Positions : k > i => ~Sets(k)
=============================================================================
