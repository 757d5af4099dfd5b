-------------------------- MODULE NoIndexChainProofs --------------------------
(***************************************************************************)
(* Proofs about NoIndexChain, for chains of any length over any layers.    *)
(***************************************************************************)
EXTENDS NoIndexChain, TLAPS

AnyLayer == Layers \cup {Absent, Broken, Unreadable}

(* What each part of the latch says of the layers read. *)
LatchedMeans ==
    latch.latched <=>
        \E i \in Positions : chain[i] = Broken \/ (IsMapping(i) /\ Excludes(chain[i]))

AmbiguousMeans ==
    latch.ambiguous <=>
        \E i \in Positions : chain[i] = Broken \/ (IsMapping(i) /\ Doubtful(chain[i]))

UnknownMeans ==
    latch.unknown_category <=>
        \E i \in Positions : IsMapping(i) /\ chain[i].category = "unknown"

CategoriesMean ==
    \A c \in Categories :
        c \in latch.categories <=>
            \E i \in Positions : IsMapping(i) /\ chain[i].category = c

Reasoned(i) == IsMapping(i) /\ chain[i].no_index = "true" /\ chain[i].reason # Unset

ReasonMeans ==
    \/ latch.reason = Unset /\ \A i \in Positions : ~Reasoned(i)
    \/ \E i \in Positions :
         /\ Reasoned(i) /\ latch.reason = chain[i].reason
         /\ \A k \in Positions : k > i => ~Reasoned(k)

SetsAuthor(i) == IsMapping(i) /\ ~chain[i].stray /\ chain[i].author # Unset

FieldMeans ==
    \/ fields.author = Unset /\ \A i \in Positions : ~SetsAuthor(i)
    \/ \E i \in Positions :
         /\ SetsAuthor(i) /\ fields.author = chain[i].author
         /\ \A k \in Positions : k > i => ~SetsAuthor(k)

LatchMeans ==
    LatchedMeans /\ AmbiguousMeans /\ UnknownMeans /\ CategoriesMean /\ ReasonMeans

DoubtIsRecorded == latch.ambiguous => errors # {}

(* The latch is what is mentioned, and nothing else decides the outcome. *)
Outcome ==
    /\ latch.latched => latch.mentioned
    /\ pc # "resolved" => fields.no_index = Unset
    /\ pc = "resolved" =>
         /\ fields.no_index = "true" <=> latch.latched
         /\ latch.latched => /\ fields.reason = ResolvedReason
                             /\ fields.category = ResolvedCategory

IInv ==
    /\ TypeOK
    /\ LatchMeans
    /\ DoubtIsRecorded
    /\ Outcome
    /\ FieldMeans

-----------------------------------------------------------------------------
(* Append adds one element, behind the others. *)
LEMMA Appends ==
    ASSUME NEW S, NEW c \in Seq(S), NEW x \in S
    PROVE  /\ Append(c, x) \in Seq(S)
           /\ Len(c) \in Nat /\ Len(Append(c, x)) = Len(c) + 1
           /\ Append(c, x)[Len(c) + 1] = x
           /\ \A i \in 1..Len(c) : Append(c, x)[i] = c[i]
OBVIOUS

(* Reading a layer adds one position, the last, and changes no other. *)
LEMMA Reads ==
    ASSUME TypeOK, NEW x \in AnyLayer, chain' = Append(chain, x)
    PROVE  \E n \in Nat :
             /\ Positions' = Positions \cup {n} /\ chain'[n] = x
             /\ \A i \in Positions : i \in Nat /\ i < n /\ chain'[i] = chain[i]
<1>1. chain \in Seq(AnyLayer)
    BY DEF TypeOK, AnyLayer
<1>2. /\ Len(chain) \in Nat /\ Len(chain') = Len(chain) + 1
      /\ chain'[Len(chain) + 1] = x
      /\ \A i \in 1..Len(chain) : chain'[i] = chain[i]
    BY <1>1, Appends
<1> WITNESS Len(chain) + 1 \in Nat
<1> QED
    BY <1>2 DEF Positions

LEMMA TypeInductive == TypeOK /\ [Next]_vars => TypeOK'
<1> SUFFICES ASSUME TypeOK, [Next]_vars
             PROVE  TypeOK'
    OBVIOUS
<1>0. ASSUME NEW x \in AnyLayer, chain' = Append(chain, x),
             errors' \subseteq errors \cup {Source}
      PROVE  chain' \in Seq(AnyLayer) /\ errors' \subseteq 1..Len(chain')
  <2>1. chain \in Seq(AnyLayer) /\ errors \subseteq 1..Len(chain)
      BY DEF TypeOK, AnyLayer
  <2>2. /\ chain' \in Seq(AnyLayer)
        /\ Len(chain) \in Nat /\ Len(chain') = Len(chain) + 1
      BY <1>0, <2>1, Appends
  <2> QED
      BY <1>0, <2>1, <2>2 DEF Source
<1> USE DEF TypeOK, Latch
<1>1. CASE SkipAbsent
    BY <1>0, <1>1 DEF SkipAbsent, AnyLayer
<1>2. CASE RejectBroken
    BY <1>0, <1>2 DEF RejectBroken, AnyLayer
<1>3. CASE ReadRaises
    BY <1>0, <1>3 DEF ReadRaises, AnyLayer
<1>4. ASSUME NEW d \in Layers, ReadMapping(d)
      PROVE  TypeOK'
  <2>1. d \in Mapping
      BY ChainAssumption
  <2>2. Merged(fields, d) \in [no_index : {Unset, "true", "false"},
                               reason : Texts \cup {Unset, Generic},
                               category : Categories \cup {Unset, "unknown"},
                               author : Texts \cup {Unset}]
      BY <2>1 DEF Merged, Mapping, Overlay
  <2>3. Examine(latch, d) \in Latch
      BY <2>1 DEF Examine, Mapping, Latched, Doubtful, Unreasoned, Categories
  <2>4. chain' \in Seq(AnyLayer) /\ errors' \subseteq 1..Len(chain')
      BY <1>0, <1>4 DEF ReadMapping, AnyLayer
  <2> QED
      BY <1>4, <2>2, <2>3, <2>4 DEF ReadMapping, AnyLayer
<1>5. CASE Resolve
    BY <1>5 DEF Resolve, ResolvedReason, ResolvedCategory, Categories
<1>6. CASE UNCHANGED vars
    BY <1>6 DEF vars
<1> QED
    BY <1>1, <1>2, <1>3, <1>4, <1>5, <1>6 DEF Next

(* The exclusion is the disjunction of the layers' exclusions. *)
LEMMA LatchedInductive == TypeOK /\ LatchedMeans /\ [Next]_vars => LatchedMeans'
<1> SUFFICES ASSUME TypeOK, LatchedMeans, [Next]_vars
             PROVE  LatchedMeans'
    OBVIOUS
<1> USE ChainAssumption DEF LatchedMeans, IsMapping, Excludes
<1>1. CASE SkipAbsent
  <2>1. chain' = Append(chain, Absent) /\ UNCHANGED <<latch, fields>>
      BY <1>1 DEF SkipAbsent
  <2>2. PICK n \in Nat :
        /\ Positions' = Positions \cup {n} /\ chain'[n] = Absent
        /\ \A i \in Positions : i \in Nat /\ i < n /\ chain'[i] = chain[i]
      BY <2>1, Reads DEF AnyLayer
  <2> QED
      BY <2>1, <2>2
<1>2. CASE RejectBroken
  <2>1. /\ chain' = Append(chain, Broken) /\ UNCHANGED fields
        /\ latch' = [latch EXCEPT !.latched = TRUE, !.mentioned = TRUE, !.ambiguous = TRUE]
      BY <1>2 DEF RejectBroken
  <2>2. PICK n \in Nat :
        /\ Positions' = Positions \cup {n} /\ chain'[n] = Broken
        /\ \A i \in Positions : i \in Nat /\ i < n /\ chain'[i] = chain[i]
      BY <2>1, Reads DEF AnyLayer
  <2> QED
      BY <2>1, <2>2 DEF TypeOK, Latch
<1>3. CASE ReadRaises
  <2>1. chain' = Append(chain, Unreadable) /\ UNCHANGED <<latch, fields>>
      BY <1>3 DEF ReadRaises
  <2>2. PICK n \in Nat :
        /\ Positions' = Positions \cup {n} /\ chain'[n] = Unreadable
        /\ \A i \in Positions : i \in Nat /\ i < n /\ chain'[i] = chain[i]
      BY <2>1, Reads DEF AnyLayer
  <2> QED
      BY <2>1, <2>2
<1>4. ASSUME NEW d \in Layers, ReadMapping(d)
      PROVE  LatchedMeans'
  <2>1. chain' = Append(chain, d)
      BY <1>4 DEF ReadMapping
  <2>2. latch'.latched = (latch.latched \/ d.typo \/ d.no_index \in {"true", "unclean"})
      BY <1>4 DEF ReadMapping, Examine, Latched
  <2>3. PICK n \in Nat :
        /\ Positions' = Positions \cup {n} /\ chain'[n] = d
        /\ \A i \in Positions : i \in Nat /\ i < n /\ chain'[i] = chain[i]
      BY <2>1, Reads DEF AnyLayer
  <2> QED
      BY <2>2, <2>3
<1>5. CASE Resolve
    BY <1>5 DEF Resolve, Positions
<1>6. CASE UNCHANGED vars
    BY <1>6 DEF vars, Positions
<1> QED
    BY <1>1, <1>2, <1>3, <1>4, <1>5, <1>6 DEF Next

(* So is the doubt. *)
LEMMA AmbiguousInductive == TypeOK /\ AmbiguousMeans /\ [Next]_vars => AmbiguousMeans'
<1> SUFFICES ASSUME TypeOK, AmbiguousMeans, [Next]_vars
             PROVE  AmbiguousMeans'
    OBVIOUS
<1> USE ChainAssumption DEF AmbiguousMeans, IsMapping
<1>1. CASE SkipAbsent
  <2>1. chain' = Append(chain, Absent) /\ UNCHANGED <<latch, fields>>
      BY <1>1 DEF SkipAbsent
  <2>2. PICK n \in Nat :
        /\ Positions' = Positions \cup {n} /\ chain'[n] = Absent
        /\ \A i \in Positions : i \in Nat /\ i < n /\ chain'[i] = chain[i]
      BY <2>1, Reads DEF AnyLayer
  <2> QED
      BY <2>1, <2>2
<1>2. CASE RejectBroken
  <2>1. /\ chain' = Append(chain, Broken) /\ UNCHANGED fields
        /\ latch' = [latch EXCEPT !.latched = TRUE, !.mentioned = TRUE, !.ambiguous = TRUE]
      BY <1>2 DEF RejectBroken
  <2>2. PICK n \in Nat :
        /\ Positions' = Positions \cup {n} /\ chain'[n] = Broken
        /\ \A i \in Positions : i \in Nat /\ i < n /\ chain'[i] = chain[i]
      BY <2>1, Reads DEF AnyLayer
  <2> QED
      BY <2>1, <2>2 DEF TypeOK, Latch
<1>3. CASE ReadRaises
  <2>1. chain' = Append(chain, Unreadable) /\ UNCHANGED <<latch, fields>>
      BY <1>3 DEF ReadRaises
  <2>2. PICK n \in Nat :
        /\ Positions' = Positions \cup {n} /\ chain'[n] = Unreadable
        /\ \A i \in Positions : i \in Nat /\ i < n /\ chain'[i] = chain[i]
      BY <2>1, Reads DEF AnyLayer
  <2> QED
      BY <2>1, <2>2
<1>4. ASSUME NEW d \in Layers, ReadMapping(d)
      PROVE  AmbiguousMeans'
  <2>1. chain' = Append(chain, d)
      BY <1>4 DEF ReadMapping
  <2>2. latch'.ambiguous = (latch.ambiguous \/ Doubtful(d))
      BY <1>4 DEF ReadMapping, Examine
  <2>3. PICK n \in Nat :
        /\ Positions' = Positions \cup {n} /\ chain'[n] = d
        /\ \A i \in Positions : i \in Nat /\ i < n /\ chain'[i] = chain[i]
      BY <2>1, Reads DEF AnyLayer
  <2> QED
      BY <2>2, <2>3
<1>5. CASE Resolve
    BY <1>5 DEF Resolve, Positions
<1>6. CASE UNCHANGED vars
    BY <1>6 DEF vars, Positions
<1> QED
    BY <1>1, <1>2, <1>3, <1>4, <1>5, <1>6 DEF Next

(* So is the presence of an unknown category. *)
LEMMA UnknownInductive == TypeOK /\ UnknownMeans /\ [Next]_vars => UnknownMeans'
<1> SUFFICES ASSUME TypeOK, UnknownMeans, [Next]_vars
             PROVE  UnknownMeans'
    OBVIOUS
<1> USE ChainAssumption DEF UnknownMeans, IsMapping
<1>1. CASE SkipAbsent
  <2>1. chain' = Append(chain, Absent) /\ UNCHANGED <<latch, fields>>
      BY <1>1 DEF SkipAbsent
  <2>2. PICK n \in Nat :
        /\ Positions' = Positions \cup {n} /\ chain'[n] = Absent
        /\ \A i \in Positions : i \in Nat /\ i < n /\ chain'[i] = chain[i]
      BY <2>1, Reads DEF AnyLayer
  <2> QED
      BY <2>1, <2>2
<1>2. CASE RejectBroken
  <2>1. /\ chain' = Append(chain, Broken) /\ UNCHANGED fields
        /\ latch' = [latch EXCEPT !.latched = TRUE, !.mentioned = TRUE, !.ambiguous = TRUE]
      BY <1>2 DEF RejectBroken
  <2>2. PICK n \in Nat :
        /\ Positions' = Positions \cup {n} /\ chain'[n] = Broken
        /\ \A i \in Positions : i \in Nat /\ i < n /\ chain'[i] = chain[i]
      BY <2>1, Reads DEF AnyLayer
  <2> QED
      BY <2>1, <2>2 DEF TypeOK, Latch
<1>3. CASE ReadRaises
  <2>1. chain' = Append(chain, Unreadable) /\ UNCHANGED <<latch, fields>>
      BY <1>3 DEF ReadRaises
  <2>2. PICK n \in Nat :
        /\ Positions' = Positions \cup {n} /\ chain'[n] = Unreadable
        /\ \A i \in Positions : i \in Nat /\ i < n /\ chain'[i] = chain[i]
      BY <2>1, Reads DEF AnyLayer
  <2> QED
      BY <2>1, <2>2
<1>4. ASSUME NEW d \in Layers, ReadMapping(d)
      PROVE  UnknownMeans'
  <2>1. chain' = Append(chain, d)
      BY <1>4 DEF ReadMapping
  <2>2. latch'.unknown_category = (latch.unknown_category \/ d.category = "unknown")
      BY <1>4 DEF ReadMapping, Examine
  <2>3. PICK n \in Nat :
        /\ Positions' = Positions \cup {n} /\ chain'[n] = d
        /\ \A i \in Positions : i \in Nat /\ i < n /\ chain'[i] = chain[i]
      BY <2>1, Reads DEF AnyLayer
  <2> QED
      BY <2>2, <2>3
<1>5. CASE Resolve
    BY <1>5 DEF Resolve, Positions
<1>6. CASE UNCHANGED vars
    BY <1>6 DEF vars, Positions
<1> QED
    BY <1>1, <1>2, <1>3, <1>4, <1>5, <1>6 DEF Next

(* The known categories are collected. *)
LEMMA CategoriesInductive == TypeOK /\ CategoriesMean /\ [Next]_vars => CategoriesMean'
<1> SUFFICES ASSUME TypeOK, CategoriesMean, [Next]_vars
             PROVE  CategoriesMean'
    OBVIOUS
<1> USE ChainAssumption DEF IsMapping
<1>1. CASE SkipAbsent
  <2> SUFFICES ASSUME NEW c \in Categories
               PROVE  (c \in latch.categories <=>
                          \E i \in Positions : IsMapping(i) /\ chain[i].category = c)'
      BY DEF CategoriesMean
  <2>0. c \in latch.categories <=>
           \E i \in Positions : IsMapping(i) /\ chain[i].category = c
      BY DEF CategoriesMean
  <2>1. chain' = Append(chain, Absent) /\ UNCHANGED <<latch, fields>>
      BY <1>1 DEF SkipAbsent
  <2>2. PICK n \in Nat :
        /\ Positions' = Positions \cup {n} /\ chain'[n] = Absent
        /\ \A i \in Positions : i \in Nat /\ i < n /\ chain'[i] = chain[i]
      BY <2>1, Reads DEF AnyLayer
  <2> QED
      BY <2>0, <2>1, <2>2
<1>2. CASE RejectBroken
  <2> SUFFICES ASSUME NEW c \in Categories
               PROVE  (c \in latch.categories <=>
                          \E i \in Positions : IsMapping(i) /\ chain[i].category = c)'
      BY DEF CategoriesMean
  <2>0. c \in latch.categories <=>
           \E i \in Positions : IsMapping(i) /\ chain[i].category = c
      BY DEF CategoriesMean
  <2>1. /\ chain' = Append(chain, Broken) /\ UNCHANGED fields
        /\ latch' = [latch EXCEPT !.latched = TRUE, !.mentioned = TRUE, !.ambiguous = TRUE]
      BY <1>2 DEF RejectBroken
  <2>2. PICK n \in Nat :
        /\ Positions' = Positions \cup {n} /\ chain'[n] = Broken
        /\ \A i \in Positions : i \in Nat /\ i < n /\ chain'[i] = chain[i]
      BY <2>1, Reads DEF AnyLayer
  <2> QED
      BY <2>0, <2>1, <2>2 DEF TypeOK, Latch
<1>3. CASE ReadRaises
  <2> SUFFICES ASSUME NEW c \in Categories
               PROVE  (c \in latch.categories <=>
                          \E i \in Positions : IsMapping(i) /\ chain[i].category = c)'
      BY DEF CategoriesMean
  <2>0. c \in latch.categories <=>
           \E i \in Positions : IsMapping(i) /\ chain[i].category = c
      BY DEF CategoriesMean
  <2>1. chain' = Append(chain, Unreadable) /\ UNCHANGED <<latch, fields>>
      BY <1>3 DEF ReadRaises
  <2>2. PICK n \in Nat :
        /\ Positions' = Positions \cup {n} /\ chain'[n] = Unreadable
        /\ \A i \in Positions : i \in Nat /\ i < n /\ chain'[i] = chain[i]
      BY <2>1, Reads DEF AnyLayer
  <2> QED
      BY <2>0, <2>1, <2>2
<1>4. ASSUME NEW d \in Layers, ReadMapping(d)
      PROVE  CategoriesMean'
  <2> SUFFICES ASSUME NEW c \in Categories
               PROVE  (c \in latch.categories <=>
                          \E i \in Positions : IsMapping(i) /\ chain[i].category = c)'
      BY DEF CategoriesMean
  <2>0. c \in latch.categories <=>
           \E i \in Positions : IsMapping(i) /\ chain[i].category = c
      BY DEF CategoriesMean
  <2>1. chain' = Append(chain, d)
      BY <1>4 DEF ReadMapping
  <2>2. latch'.categories = latch.categories \cup ({d.category} \cap Categories)
      BY <1>4 DEF ReadMapping, Examine
  <2>3. PICK n \in Nat :
        /\ Positions' = Positions \cup {n} /\ chain'[n] = d
        /\ \A i \in Positions : i \in Nat /\ i < n /\ chain'[i] = chain[i]
      BY <2>1, Reads DEF AnyLayer
  <2> QED
      BY <2>0, <2>2, <2>3
<1>5. CASE Resolve
    BY <1>5 DEF Resolve, Positions, CategoriesMean
<1>6. CASE UNCHANGED vars
    BY <1>6 DEF vars, Positions, CategoriesMean
<1> QED
    BY <1>1, <1>2, <1>3, <1>4, <1>5, <1>6 DEF Next

(* A layer without a reason of its own leaves the reason. *)
LEMMA ReasonKept ==
    ASSUME ReasonMeans, NEW n \in Nat, Positions' = Positions \cup {n},
           \A i \in Positions : i \in Nat /\ i < n /\ chain'[i] = chain[i],
           ~Reasoned(n)', latch.reason' = latch.reason
    PROVE  ReasonMeans'
<1>1. \A i \in Positions : Reasoned(i)' <=> Reasoned(i)
    BY DEF Reasoned, IsMapping
<1>2. CASE latch.reason = Unset /\ \A i \in Positions : ~Reasoned(i)
    BY <1>1, <1>2 DEF ReasonMeans
<1>3. CASE \E i \in Positions :
              /\ Reasoned(i) /\ latch.reason = chain[i].reason
              /\ \A k \in Positions : k > i => ~Reasoned(k)
  <2>1. PICK i \in Positions :
              /\ Reasoned(i) /\ latch.reason = chain[i].reason
              /\ \A k \in Positions : k > i => ~Reasoned(k)
      BY <1>3
  <2>2. /\ i \in Positions' /\ Reasoned(i)' /\ latch.reason' = chain'[i].reason
        /\ \A k \in Positions' : k > i => ~Reasoned(k)'
      BY <1>1, <2>1
  <2> QED
      BY <2>2 DEF ReasonMeans
<1> QED
    BY <1>2, <1>3 DEF ReasonMeans

(* The reason is the last one an excluding layer gave. *)
LEMMA ReasonInductive == TypeOK /\ ReasonMeans /\ [Next]_vars => ReasonMeans'
<1> SUFFICES ASSUME TypeOK, ReasonMeans, [Next]_vars
             PROVE  ReasonMeans'
    OBVIOUS
<1>1. CASE SkipAbsent
  <2>1. chain' = Append(chain, Absent) /\ latch.reason' = latch.reason
      BY <1>1 DEF SkipAbsent, TypeOK, Latch
  <2>2. PICK n \in Nat :
        /\ Positions' = Positions \cup {n} /\ chain'[n] = Absent
        /\ \A i \in Positions : i \in Nat /\ i < n /\ chain'[i] = chain[i]
      BY <2>1, Reads DEF AnyLayer
  <2>3. ~Reasoned(n)'
      BY <2>2, ChainAssumption DEF Reasoned, IsMapping
  <2> QED
      BY <2>1, <2>2, <2>3, ReasonKept
<1>2. CASE RejectBroken
  <2>1. chain' = Append(chain, Broken) /\ latch.reason' = latch.reason
      BY <1>2 DEF RejectBroken, TypeOK, Latch
  <2>2. PICK n \in Nat :
        /\ Positions' = Positions \cup {n} /\ chain'[n] = Broken
        /\ \A i \in Positions : i \in Nat /\ i < n /\ chain'[i] = chain[i]
      BY <2>1, Reads DEF AnyLayer
  <2>3. ~Reasoned(n)'
      BY <2>2, ChainAssumption DEF Reasoned, IsMapping
  <2> QED
      BY <2>1, <2>2, <2>3, ReasonKept
<1>3. CASE ReadRaises
  <2>1. chain' = Append(chain, Unreadable) /\ latch.reason' = latch.reason
      BY <1>3 DEF ReadRaises, TypeOK, Latch
  <2>2. PICK n \in Nat :
        /\ Positions' = Positions \cup {n} /\ chain'[n] = Unreadable
        /\ \A i \in Positions : i \in Nat /\ i < n /\ chain'[i] = chain[i]
      BY <2>1, Reads DEF AnyLayer
  <2>3. ~Reasoned(n)'
      BY <2>2, ChainAssumption DEF Reasoned, IsMapping
  <2> QED
      BY <2>1, <2>2, <2>3, ReasonKept
<1>4. ASSUME NEW d \in Layers, ReadMapping(d)
      PROVE  ReasonMeans'
  <2>1. chain' = Append(chain, d)
      BY <1>4 DEF ReadMapping
  <2>2. IF d.no_index = "true" /\ d.reason # Unset
        THEN latch.reason' = d.reason ELSE latch.reason' = latch.reason
      BY <1>4 DEF ReadMapping, Examine, Unreasoned
  <2>3. PICK n \in Nat :
        /\ Positions' = Positions \cup {n} /\ chain'[n] = d
        /\ \A i \in Positions : i \in Nat /\ i < n /\ chain'[i] = chain[i]
      BY <2>1, Reads DEF AnyLayer
  <2>4. Reasoned(n)' <=> d.no_index = "true" /\ d.reason # Unset
      BY <2>3 DEF Reasoned, IsMapping
  <2>5. CASE d.no_index = "true" /\ d.reason # Unset
    <3>1. /\ n \in Positions' /\ Reasoned(n)' /\ latch.reason' = chain'[n].reason
          /\ \A k \in Positions' : ~(k > n)
        BY <2>2, <2>3, <2>4, <2>5
    <3> QED
        BY <3>1 DEF ReasonMeans
  <2>6. CASE ~(d.no_index = "true" /\ d.reason # Unset)
      BY <2>2, <2>3, <2>4, <2>6, ReasonKept
  <2> QED
      BY <2>5, <2>6
<1>5. CASE Resolve
    BY <1>5 DEF Resolve, Positions, ReasonMeans, Reasoned, IsMapping, TypeOK
<1>6. CASE UNCHANGED vars
    BY <1>6 DEF vars, Positions, ReasonMeans, Reasoned, IsMapping
<1> QED
    BY <1>1, <1>2, <1>3, <1>4, <1>5, <1>6 DEF Next

(* A layer that is dropped, or does not set the field, leaves it. *)
LEMMA FieldKept ==
    ASSUME FieldMeans, NEW n \in Nat, Positions' = Positions \cup {n},
           \A i \in Positions : i \in Nat /\ i < n /\ chain'[i] = chain[i],
           ~SetsAuthor(n)', fields.author' = fields.author
    PROVE  FieldMeans'
<1>1. \A i \in Positions : SetsAuthor(i)' <=> SetsAuthor(i)
    BY DEF SetsAuthor, IsMapping
<1>2. CASE fields.author = Unset /\ \A i \in Positions : ~SetsAuthor(i)
    BY <1>1, <1>2 DEF FieldMeans
<1>3. CASE \E i \in Positions :
              /\ SetsAuthor(i) /\ fields.author = chain[i].author
              /\ \A k \in Positions : k > i => ~SetsAuthor(k)
  <2>1. PICK i \in Positions :
              /\ SetsAuthor(i) /\ fields.author = chain[i].author
              /\ \A k \in Positions : k > i => ~SetsAuthor(k)
      BY <1>3
  <2>2. /\ i \in Positions' /\ SetsAuthor(i)' /\ fields.author' = chain'[i].author
        /\ \A k \in Positions' : k > i => ~SetsAuthor(k)'
      BY <1>1, <2>1
  <2> QED
      BY <2>2 DEF FieldMeans
<1> QED
    BY <1>2, <1>3 DEF FieldMeans

(* The field has the value of the last kept layer that sets it. *)
LEMMA FieldsInductive == TypeOK /\ FieldMeans /\ [Next]_vars => FieldMeans'
<1> SUFFICES ASSUME TypeOK, FieldMeans, [Next]_vars
             PROVE  FieldMeans'
    OBVIOUS
<1>1. CASE SkipAbsent
  <2>1. chain' = Append(chain, Absent) /\ fields.author' = fields.author
      BY <1>1 DEF SkipAbsent, TypeOK, Latch
  <2>2. PICK n \in Nat :
        /\ Positions' = Positions \cup {n} /\ chain'[n] = Absent
        /\ \A i \in Positions : i \in Nat /\ i < n /\ chain'[i] = chain[i]
      BY <2>1, Reads DEF AnyLayer
  <2>3. ~SetsAuthor(n)'
      BY <2>2, ChainAssumption DEF SetsAuthor, IsMapping
  <2> QED
      BY <2>1, <2>2, <2>3, FieldKept
<1>2. CASE RejectBroken
  <2>1. chain' = Append(chain, Broken) /\ fields.author' = fields.author
      BY <1>2 DEF RejectBroken, TypeOK, Latch
  <2>2. PICK n \in Nat :
        /\ Positions' = Positions \cup {n} /\ chain'[n] = Broken
        /\ \A i \in Positions : i \in Nat /\ i < n /\ chain'[i] = chain[i]
      BY <2>1, Reads DEF AnyLayer
  <2>3. ~SetsAuthor(n)'
      BY <2>2, ChainAssumption DEF SetsAuthor, IsMapping
  <2> QED
      BY <2>1, <2>2, <2>3, FieldKept
<1>3. CASE ReadRaises
  <2>1. chain' = Append(chain, Unreadable) /\ fields.author' = fields.author
      BY <1>3 DEF ReadRaises, TypeOK, Latch
  <2>2. PICK n \in Nat :
        /\ Positions' = Positions \cup {n} /\ chain'[n] = Unreadable
        /\ \A i \in Positions : i \in Nat /\ i < n /\ chain'[i] = chain[i]
      BY <2>1, Reads DEF AnyLayer
  <2>3. ~SetsAuthor(n)'
      BY <2>2, ChainAssumption DEF SetsAuthor, IsMapping
  <2> QED
      BY <2>1, <2>2, <2>3, FieldKept
<1>4. ASSUME NEW d \in Layers, ReadMapping(d)
      PROVE  FieldMeans'
  <2>1. chain' = Append(chain, d)
      BY <1>4 DEF ReadMapping
  <2>2. IF ~d.stray /\ d.author # Unset
        THEN fields.author' = d.author ELSE fields.author' = fields.author
      BY <1>4 DEF ReadMapping, Kept, Merged, Overlay, TypeOK
  <2>3. PICK n \in Nat :
        /\ Positions' = Positions \cup {n} /\ chain'[n] = d
        /\ \A i \in Positions : i \in Nat /\ i < n /\ chain'[i] = chain[i]
      BY <2>1, Reads DEF AnyLayer
  <2>4. SetsAuthor(n)' <=> ~d.stray /\ d.author # Unset
      BY <2>3 DEF SetsAuthor, IsMapping
  <2>5. CASE ~d.stray /\ d.author # Unset
    <3>1. /\ n \in Positions' /\ SetsAuthor(n)' /\ fields.author' = chain'[n].author
          /\ \A k \in Positions' : ~(k > n)
        BY <2>2, <2>3, <2>4, <2>5
    <3> QED
        BY <3>1 DEF FieldMeans
  <2>6. CASE ~(~d.stray /\ d.author # Unset)
      BY <2>2, <2>3, <2>4, <2>6, FieldKept
  <2> QED
      BY <2>5, <2>6
<1>5. CASE Resolve
    BY <1>5 DEF Resolve, Positions, FieldMeans, SetsAuthor, IsMapping, TypeOK
<1>6. CASE UNCHANGED vars
    BY <1>6 DEF vars, Positions, FieldMeans, SetsAuthor, IsMapping
<1> QED
    BY <1>1, <1>2, <1>3, <1>4, <1>5, <1>6 DEF Next

(* Each doubt leaves an error. *)
LEMMA ErrorsInductive == DoubtIsRecorded /\ [Next]_vars => DoubtIsRecorded'
<1> SUFFICES ASSUME DoubtIsRecorded, [Next]_vars
             PROVE  DoubtIsRecorded'
    OBVIOUS
<1> USE DEF DoubtIsRecorded
<1>1. CASE SkipAbsent
    BY <1>1 DEF SkipAbsent
<1>2. CASE RejectBroken
    BY <1>2 DEF RejectBroken
<1>3. CASE ReadRaises
    BY <1>3 DEF ReadRaises
<1>4. ASSUME NEW d \in Layers, ReadMapping(d)
      PROVE  DoubtIsRecorded'
    BY <1>4 DEF ReadMapping, Examine, Faulty
<1>5. CASE Resolve
    BY <1>5 DEF Resolve
<1>6. CASE UNCHANGED vars
    BY <1>6 DEF vars
<1> QED
    BY <1>1, <1>2, <1>3, <1>4, <1>5, <1>6 DEF Next

(* Only apply decides, and it decides by the latch. *)
LEMMA OutcomeInductive == TypeOK /\ Outcome /\ [Next]_vars => Outcome'
<1> SUFFICES ASSUME TypeOK, Outcome, [Next]_vars
             PROVE  Outcome'
    OBVIOUS
<1> USE DEF Outcome, Reading
<1>1. CASE SkipAbsent
    BY <1>1 DEF SkipAbsent
<1>2. CASE RejectBroken
    BY <1>2 DEF RejectBroken, TypeOK, Latch
<1>3. CASE ReadRaises
    BY <1>3 DEF ReadRaises
<1>4. ASSUME NEW d \in Layers, ReadMapping(d)
      PROVE  Outcome'
  <2>1. fields'.no_index = fields.no_index /\ pc' = "reading" /\ pc = "reading"
      BY <1>4 DEF ReadMapping, Merged, TypeOK
  <2>2. latch'.latched => latch'.mentioned
      BY <1>4, ChainAssumption DEF ReadMapping, Examine, Latched
  <2> QED
      BY <2>1, <2>2
<1>5. CASE Resolve
    BY <1>5, ChainAssumption DEF Resolve, TypeOK, ResolvedReason, ResolvedCategory
<1>6. CASE UNCHANGED vars
    BY <1>6 DEF vars, ResolvedReason, ResolvedCategory
<1> QED
    BY <1>1, <1>2, <1>3, <1>4, <1>5, <1>6 DEF Next

-----------------------------------------------------------------------------
LEMMA InvariantHolds == Spec => []IInv
<1>1. Init => IInv
  <2> SUFFICES ASSUME Init PROVE IInv
      OBVIOUS
  <2>1. TypeOK
      BY DEF Init, TypeOK, Latch
  <2>2. Positions = {}
      BY DEF Init, Positions
  <2> QED
      BY <2>1, <2>2 DEF Init, IInv, LatchMeans, LatchedMeans, AmbiguousMeans, UnknownMeans,
         CategoriesMean, ReasonMeans, DoubtIsRecorded, Outcome, FieldMeans
<1>2. IInv /\ [Next]_vars => IInv'
    BY TypeInductive, LatchedInductive, AmbiguousInductive, UnknownInductive,
       CategoriesInductive, ReasonInductive, FieldsInductive, ErrorsInductive,
       OutcomeInductive DEF IInv, LatchMeans
<1> QED
    BY <1>1, <1>2, PTL DEF Spec

(* Every reachable state of the resolution has its type. *)
THEOREM TypeCorrectness == Spec => []TypeOK
<1>1. IInv => TypeOK
    BY DEF IInv
<1> QED
    BY <1>1, InvariantHolds, PTL

(* A file is excluded exactly when some layer of its chain excludes it or may
   have meant to, for chains of any length: the latch is one-way. *)
THEOREM ExclusionIsOneWay == Spec => []ExclusionWins
<1>1. IInv => ExclusionWins
    BY DEF IInv, LatchMeans, LatchedMeans, Outcome, ExclusionWins
<1> QED
    BY <1>1, InvariantHolds, PTL

(* An exclusion is housekeeping only when that is said and nothing is in doubt. *)
THEOREM SeveritySafety == Spec => []SeverityIsSafe
<1>1. ASSUME IInv, Excluded
      PROVE  SeverityIsSafe
  <2>1. fields.category = ResolvedCategory
      BY <1>1 DEF IInv, Excluded, Outcome
  <2>2. /\ AmbiguousMeans /\ UnknownMeans
        /\ latch.categories \subseteq Categories
        /\ \A c \in Categories : c \in latch.categories <=>
              \E i \in Positions : IsMapping(i) /\ chain[i].category = c
      BY <1>1 DEF IInv, LatchMeans, CategoriesMean, TypeOK, Latch
  <2>3. \A i \in Positions : IsMapping(i) =>
           chain[i].category \in {Unset, "unknown", "housekeeping", "legally_obligatory"}
      BY ChainAssumption DEF IsMapping, Mapping, Categories
  <2>4. latch.categories = {"housekeeping"} <=>
           /\ \E i \in Positions : IsMapping(i) /\ chain[i].category = "housekeeping"
           /\ \A i \in Positions : IsMapping(i) => chain[i].category # "legally_obligatory"
      BY <2>2 DEF Categories
  <2>5. fields.category = "housekeeping" <=>
           latch.categories = {"housekeeping"} /\ ~latch.ambiguous /\ ~latch.unknown_category
      BY <2>1 DEF ResolvedCategory
  <2> QED
      BY <2>2, <2>3, <2>4, <2>5, ChainAssumption
      DEF AmbiguousMeans, UnknownMeans, SeverityIsSafe, Categories
<1>2. IInv => SeverityIsSafe
    BY <1>1 DEF SeverityIsSafe
<1> QED
    BY <1>2, InvariantHolds, PTL

(* The reason on record is an excluding layer's, or there is an error. *)
THEOREM ReasonSafety == Spec => []ReasonIsOfTheExclusion
<1>1. ASSUME IInv, Excluded
      PROVE  ReasonIsOfTheExclusion
  <2>1. latch.latched /\ fields.reason = ResolvedReason /\ ReasonMeans
      BY <1>1 DEF IInv, Excluded, Outcome, LatchMeans
  <2>2. CASE latch.reason # Unset
      BY <2>1, <2>2 DEF ReasonMeans, Reasoned, ResolvedReason, ReasonIsOfTheExclusion
  <2>3. CASE latch.reason = Unset
    <3>1. fields.reason = Generic /\ \A i \in Positions : ~Reasoned(i)
        BY <2>1, <2>3 DEF ResolvedReason, ReasonMeans, Reasoned
    <3>2. PICK i \in Positions : chain[i] = Broken \/ (IsMapping(i) /\ Excludes(chain[i]))
        BY <1>1, <2>1 DEF IInv, LatchMeans, LatchedMeans
    <3>3. chain[i] = Broken \/ (IsMapping(i) /\ Doubtful(chain[i]))
        BY <3>1, <3>2 DEF Reasoned, Excludes, Doubtful, Unreasoned
    <3>4. errors # {}
        BY <1>1, <3>3 DEF IInv, LatchMeans, AmbiguousMeans, DoubtIsRecorded
    <3> QED
        BY <3>1, <3>4 DEF Reasoned, ReasonIsOfTheExclusion
  <2> QED
      BY <2>2, <2>3
<1>2. IInv => ReasonIsOfTheExclusion
    BY <1>1 DEF ReasonIsOfTheExclusion
<1> QED
    BY <1>2, InvariantHolds, PTL

(* An ordinary field is the narrowest kept layer's, for chains of any length. *)
THEOREM FieldSafety == Spec => []FieldsFailOpen
<1>1. IInv => FieldsFailOpen
    BY DEF IInv, FieldMeans, SetsAuthor, FieldsFailOpen
<1> QED
    BY <1>1, InvariantHolds, PTL
=============================================================================
