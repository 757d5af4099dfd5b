------------------------------ MODULE Citations ------------------------------
(***************************************************************************)
(* How a text is read for the authorities it cites and the passages it     *)
(* quotes (grounding/authorities.py, grounding/quotes.py).                 *)
(*                                                                         *)
(* A text is a sequence of words; word i takes the place [i, i + 1), and a *)
(* reference or a quotation is a span [start, end).  A neutral citation, a *)
(* rule, a section ("s.7"), a quoted passage and a word of the name of an  *)
(* Act are one word each: what the regular expressions make of characters  *)
(* (word boundaries, letter case, the spellings of one citation) is left   *)
(* out, how overlapping names, sections and Acts are put together is not.  *)
(***************************************************************************)
EXTENDS Naturals, Sequences, FiniteSets

CONSTANTS Words,      \* what texts and the names of Acts are made of
          Surfaces,   \* _ACT_SURFACES: a sequence of [words, act, chars], the name of
                      \* the most characters first
          Sections,   \* the words that are sections
          Cites,      \* the words that are neutral citations or rules...
          CiteKey,    \* ...and CiteKey[w], the authority each of them names
          Openers,    \* citation-shaped words that do not parse
          Passages,   \* the words that are quoted passages worth verifying
          StatuteWindow, \* _STATUTE_WINDOW
          Proximity   \* PROXIMITY_CHARS

ASSUME CitationsAssumption ==
    /\ Surfaces \in Seq([words : Seq(Words), act : {Surfaces[n].act : n \in DOMAIN Surfaces},
                         chars : Nat])
    /\ \A n \in DOMAIN Surfaces :  \* no first word of a name comes again in it
         /\ Surfaces[n].words # <<>>
         /\ \A i \in 2..Len(Surfaces[n].words) : Surfaces[n].words[i] # Surfaces[n].words[1]
    /\ \A n, k \in DOMAIN Surfaces : n < k => Surfaces[n].chars >= Surfaces[k].chars
    /\ DOMAIN CiteKey = Cites
    /\ StatuteWindow \in Nat /\ Proximity \in Nat

Overlap(x, y) == x.start < y.end /\ y.start < x.end

(* _quote_distance, and the same computation in _find_statutes. *)
Distance(x, y) ==
    IF y.end <= x.start THEN x.start - y.end
    ELSE IF x.end <= y.start THEN y.start - x.end ELSE 0

Occurrences(text, n) ==
    LET words == Surfaces[n].words
        At(i) == i + Len(words) - 1 <= Len(text)
                 /\ SubSeq(text, i, i + Len(words) - 1) = words
    IN  {[start |-> i, end |-> i + Len(words), act |-> Surfaces[n].act, rank |-> n] :
            i \in {j \in DOMAIN text : At(j)}}

Untaken(text, n, spans) == {o \in Occurrences(text, n) : \A taken \in spans : ~Overlap(o, taken)}

(* The names of Acts in a text: the fullest name first, an abbreviation only
   where no fuller name was found. *)
ActSpansOverlapping(text) == UNION {Occurrences(text, n) : n \in DOMAIN Surfaces}
ActSpans(text) ==
    LET upTo[n \in 0..Len(Surfaces)] ==
          IF n = 0 THEN {}
          ELSE upTo[n-1] \cup Untaken(text, n, upTo[n-1])
    IN  upTo[Len(Surfaces)]

(* The Act a section belongs to: the nearest within the window; the first found
   among the nearest, that is the fullest name, then the earlier one. *)
Nearest(sec, acts) ==
    CHOOSE a \in acts : \A b \in acts :
        \/ Distance(sec, a) < Distance(sec, b)
        \/ /\ Distance(sec, a) = Distance(sec, b)
           /\ a.rank < b.rank \/ (a.rank = b.rank /\ a.start <= b.start)

Least(S) == CHOOSE x \in S : \A y \in S : x <= y
Greatest(S) == CHOOSE x \in S : \A y \in S : x >= y

Statutes(text) ==
    LET acts == ActSpans(text)
        Near(sec) == {a \in acts : Distance(sec, a) <= StatuteWindow}
        secs == {s \in {[start |-> i, end |-> i + 1] :
                           i \in {j \in DOMAIN text : text[j] \in Sections}} :
                   Near(s) # {}}
        Ref(sec) == LET a == Nearest(sec, Near(sec))
                    IN  [key   |-> <<"stat", a.act, text[sec.start]>>,
                         start |-> Least({sec.start, a.start}),
                         end   |-> Greatest({sec.end, a.end})]
        Same(s, t) == Ref(s).start = Ref(t).start /\ Ref(s).key = Ref(t).key
    IN  {Ref(s) : s \in {t \in secs : \A u \in secs : Same(u, t) => t.start <= u.start}}

(* find_authorities: every reference a text makes. *)
Authorities(text) ==
    Statutes(text) \cup
    {[key |-> <<"cite", CiteKey[text[i]]>>, start |-> i, end |-> i + 1] :
        i \in {j \in DOMAIN text : text[j] \in Cites}}

AuthorityKeys(text) == {ref.key : ref \in Authorities(text)}

(* _malformed_shapes: citation-shaped words the recogniser did not parse. *)
Malformed(text) == {i \in DOMAIN text : text[i] \in Openers}

(* find_quotes: the quoted passages of a text. *)
Quotes(text) ==
    {[passage |-> text[i], start |-> i, end |-> i + 1] :
        i \in {j \in DOMAIN text : text[j] \in Passages}}

(* _near_authorities: what is cited near a quotation, and the nearest of it:
   the one that starts first among the nearest. *)
NearAuthorities(quote, refs) == {a \in refs : Distance(quote, a) <= Proximity}

NearestCited(quote, near) ==
    CHOOSE a \in near : \A b \in near :
        \/ Distance(quote, a) < Distance(quote, b)
        \/ /\ Distance(quote, a) = Distance(quote, b)
           /\ a.start < b.start \/ (a.start = b.start /\ a.end <= b.end)

-----------------------------------------------------------------------------
(* How a text should be read, in terms of all the places where a name occurs:
   no word belongs to two names, a name is passed over only for one that it overlaps
   and that has as many characters or more, and a section goes to a name no other is
   nearer than. *)
ReadsActs(text) ==
    LET acts == ActSpans(text)
        all == UNION {Occurrences(text, n) : n \in DOMAIN Surfaces}
    IN  /\ \A a, b \in acts : a # b => ~Overlap(a, b)
        /\ \A o \in all \ acts : \E a \in acts :
             Overlap(o, a) /\ Surfaces[a.rank].chars >= Surfaces[o.rank].chars
        /\ \A ref \in Statutes(text) : \E a \in acts, i \in DOMAIN text :
             /\ ref.key = <<"stat", a.act, text[i]>>
             /\ {a.start, i} \subseteq ref.start .. (ref.end - 1)
             /\ LET sec == [start |-> i, end |-> i + 1]
                IN  \A b \in acts : Distance(sec, a) <= Distance(sec, b)

=============================================================================
