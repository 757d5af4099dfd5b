---------------------------- MODULE AnalysisProofs ----------------------------
(***************************************************************************)
(* Proofs about what the analyses report of the corpus.  Of Citations and  *)
(* Grounding: how any text is read for the Acts it names, and what the     *)
(* report and the exit code of ground-check say of any files and library.  *)
(* Of Claims: which contradictions are found in whatever is claimed, under *)
(* whatever labels and in whatever copies.                                 *)
(***************************************************************************)
EXTENDS Grounding, Claims, LeastNatural, SequenceTheorems

Last == Len(Surfaces)

LEMMA NamesTyped ==
  /\ Last \in Nat /\ DOMAIN Surfaces = 1..Last
  /\ \A n \in 1..Last : /\ Surfaces[n].words \in Seq(Words)
                        /\ Len(Surfaces[n].words) \in Nat \ {0}
                        /\ Surfaces[n].chars \in Nat
  <1>1. Surfaces \in Seq([words : Seq(Words), act : {Surfaces[n].act : n \in DOMAIN Surfaces},
                          chars : Nat])
    BY CitationsAssumption
  <1>2. Last \in Nat /\ DOMAIN Surfaces = 1..Last
    BY <1>1, LenProperties DEF Last
  <1>3. ASSUME NEW n \in 1..Last
        PROVE  /\ Surfaces[n].words \in Seq(Words) /\ Surfaces[n].words # <<>>
               /\ Surfaces[n].chars \in Nat
    <2>1. Surfaces[n] \in [words : Seq(Words), act : {Surfaces[k].act : k \in DOMAIN Surfaces},
                           chars : Nat]
      BY <1>1, ElementOfSeq DEF Last
    <2>2. Surfaces[n].words # <<>>
      BY <1>2, CitationsAssumption
    <2>3. Surfaces[n].chars \in Nat
      BY <2>1
    <2> QED BY <2>1, <2>2, <2>3
  <1>4. ASSUME NEW n \in 1..Last PROVE Len(Surfaces[n].words) \in Nat \ {0}
    BY <1>3, EmptySeq, LenProperties
  <1> QED BY <1>2, <1>3, <1>4

LEMMA PartOfText ==
  ASSUME NEW text \in Seq(Words), NEW i \in Nat \ {0}, NEW L \in Nat, i + L <= Len(text) + 1
  PROVE  \A k \in 1..L : SubSeq(text, i, i + L - 1)[k] = text[i + k - 1]
  <1>1. i \in Int /\ i + L - 1 \in Int /\ (i + L - 1) - i + 1 = L
    OBVIOUS
  <1>2. \A k \in i..(i + L - 1) : text[k] \in Words
    <2>1. Len(text) \in Nat
      BY LenProperties
    <2> QED BY <2>1, ElementOfSeq
  <1> DEFINE n == i + L - 1
  <1>3. n \in Int /\ n - i + 1 = L /\ \A k \in i..n : text[k] \in Words
    BY <1>1, <1>2
  <1> HIDE DEF n
  <1>4. \A k \in 1..(n - i + 1) : SubSeq(text, i, n)[k] = text[i + k - 1]
    BY <1>1, <1>3, SubSeqProperties
  <1> QED BY <1>3, <1>4 DEF n

(* Occurrences have places, and are as long as their name. *)
LEMMA OccurrencesTyped ==
  ASSUME NEW text \in Seq(Words), NEW n \in 1..Last, NEW o \in Occurrences(text, n)
  PROVE  /\ o.start \in DOMAIN text /\ o.start \in Nat \ {0}
         /\ o.end = o.start + Len(Surfaces[n].words) /\ o.end \in Nat
         /\ o.rank = n /\ o.act = Surfaces[n].act
         /\ o = [start |-> o.start, end |-> o.end, act |-> o.act, rank |-> o.rank]
         /\ o.end <= Len(text) + 1
         /\ \A k \in 1..Len(Surfaces[n].words) :
              text[o.start + k - 1] = Surfaces[n].words[k]
  <1>1. PICK i \in DOMAIN text :
          /\ o = [start |-> i, end |-> i + Len(Surfaces[n].words),
                  act |-> Surfaces[n].act, rank |-> n]
          /\ i + Len(Surfaces[n].words) - 1 <= Len(text)
          /\ SubSeq(text, i, i + Len(Surfaces[n].words) - 1) = Surfaces[n].words
    BY DEF Occurrences
  <1>2. i \in Nat \ {0} /\ Len(Surfaces[n].words) \in Nat \ {0} /\ Len(text) \in Nat
    BY NamesTyped, LenProperties
  <1>3. \A k \in 1..Len(Surfaces[n].words) : text[i + k - 1] = Surfaces[n].words[k]
    <2>1. \A k \in 1..Len(Surfaces[n].words) :
            SubSeq(text, i, i + Len(Surfaces[n].words) - 1)[k] = text[i + k - 1]
      BY <1>1, <1>2, PartOfText
    <2> QED BY <1>1, <2>1
  <1> QED BY <1>1, <1>2, <1>3

(* A name does not overlap itself: its first word is not found again in it. *)
LEMMA SameNameApart ==
  ASSUME NEW text \in Seq(Words), NEW n \in 1..Last,
         NEW a \in Occurrences(text, n), NEW b \in Occurrences(text, n), a.start < b.start
  PROVE  ~Overlap(a, b)
  <1> DEFINE words == Surfaces[n].words
             L == Len(words)
             i == b.start - a.start + 1
  <1>1. L \in Nat \ {0}
    BY NamesTyped
  <1>2. /\ a.start \in Nat \ {0} /\ a.end = a.start + L
        /\ \A k \in 1..L : text[a.start + k - 1] = words[k]
    BY OccurrencesTyped
  <1>3. /\ b.start \in Nat \ {0} /\ b.end = b.start + L
        /\ \A k \in 1..L : text[b.start + k - 1] = words[k]
    BY OccurrencesTyped
  <1>4. SUFFICES ASSUME b.start < a.start + L PROVE FALSE
    BY <1>1, <1>2, <1>3 DEF Overlap
  <1>5. i \in 2..L /\ a.start + i - 1 = b.start /\ b.start + 1 - 1 = b.start
    BY <1>1, <1>2, <1>3, <1>4
  <1>6. words[i] # words[1]
    BY <1>5, NamesTyped, CitationsAssumption
  <1> HIDE DEF words, L, i
  <1>7. words[i] = text[b.start] /\ words[1] = text[b.start]
    <2>1. i \in 1..L /\ 1 \in 1..L
      BY <1>1, <1>5
    <2>2. text[a.start + i - 1] = words[i]
      BY <1>2, <2>1
    <2>3. text[b.start + 1 - 1] = words[1]
      BY <1>3, <2>1
    <2> QED BY <1>5, <2>2, <2>3
  <1> QED BY <1>6, <1>7

(* The recursion of ActSpans has a solution: otherwise there is a first name up to
   which it has none. *)
LEMMA ActSpansSolved ==
  ASSUME NEW text
  PROVE  \E spans : /\ spans[0] = {}
                    /\ \A n \in 1..Last :
                         spans[n] = spans[n-1] \cup Untaken(text, n, spans[n-1])
                    /\ ActSpans(text) = spans[Last]
  <1> DEFINE Solves(f, m) ==
               f = [n \in 0..m |-> IF n = 0 THEN {}
                                   ELSE f[n-1] \cup Untaken(text, n, f[n-1])]
             Unsolved == {m \in 0..Last : ~\E f : Solves(f, m)}
  <1>1. Unsolved = {}
    <2>1. SUFFICES ASSUME Unsolved # {} PROVE FALSE
      OBVIOUS
    <2>2. PICK m \in Unsolved : \A k \in Unsolved : m <= k
      <3>1. Unsolved \in SUBSET Nat
        BY NamesTyped
      <3> HIDE DEF Unsolved
      <3> QED BY <2>1, <3>1, LeastExists
    <2>3. m \in Nat /\ m <= Last /\ ~\E f : Solves(f, m)
      BY NamesTyped
    <2>4. CASE m = 0
      <3>1. Solves([n \in 0..0 |-> {}], 0)
        OBVIOUS
      <3> QED BY <2>3, <2>4, <3>1
    <2>5. CASE m # 0
      <3>1. m - 1 \in 0..Last /\ ~(m <= m - 1)
        BY <2>3, <2>5, NamesTyped
      <3>2. PICK f : Solves(f, m - 1)
        BY <2>2, <3>1
      <3> DEFINE Next(n, S) == S \cup Untaken(text, n, S)
                 g == [n \in 0..m |-> IF n = m THEN Next(m, f[m-1]) ELSE f[n]]
      <3>3. \A n \in 0..m : g[n] = IF n = 0 THEN {} ELSE Next(n, g[n-1])
        <4> SUFFICES ASSUME NEW n \in 0..m PROVE g[n] = IF n = 0 THEN {} ELSE Next(n, g[n-1])
          OBVIOUS
        <4>1. CASE n = m
          <5>1. g[m] = Next(m, f[m-1]) /\ g[m-1] = f[m-1]
            BY <2>3, <2>5
          <5> HIDE DEF g, Next
          <5> QED BY <4>1, <5>1, <2>5
        <4>2. CASE n # m
          <5>1. n \in 0..(m-1) /\ (n # 0 => n - 1 \in 0..m /\ n - 1 # m)
            BY <2>3, <4>2
          <5>2. g[n] = f[n] /\ (n # 0 => g[n-1] = f[n-1])
            BY <4>2, <5>1
          <5>3. f[n] = IF n = 0 THEN {} ELSE Next(n, f[n-1])
            BY <3>2, <5>1
          <5> HIDE DEF g, Next
          <5> QED BY <5>2, <5>3
        <4> QED BY <4>1, <4>2
      <3>4. Solves(g, m)
        <4> DEFINE h == [n \in 0..m |-> IF n = 0 THEN {} ELSE Next(n, g[n-1])]
        <4>1. g = [n \in 0..m |-> g[n]]
          OBVIOUS
        <4>2. h = [n \in 0..m |-> h[n]] /\ \A n \in 0..m : h[n] = g[n]
          BY <3>3
        <4>3. g = h
          <5> HIDE DEF g, h
          <5> QED BY <4>1, <4>2
        <4> HIDE DEF g
        <4> QED BY <4>3
      <3> HIDE DEF Solves, g
      <3> QED BY <2>3, <3>4
    <2> QED BY <2>4, <2>5
  <1>2. Last \in 0..Last
    BY NamesTyped
  <1> DEFINE upTo == CHOOSE f : Solves(f, Last)
  <1>3. Solves(upTo, Last)
    <2>1. \E f : Solves(f, Last)
      BY <1>1, <1>2
    <2> HIDE DEF Solves
    <2> QED BY <2>1
  <1>4. ActSpans(text) = upTo[Last]
    BY DEF ActSpans, Last
  <1>5. /\ upTo[0] = {}
        /\ \A n \in 1..Last : upTo[n] = upTo[n-1] \cup Untaken(text, n, upTo[n-1])
    <2> DEFINE Body(n) == IF n = 0 THEN {} ELSE upTo[n-1] \cup Untaken(text, n, upTo[n-1])
    <2>1. upTo = [n \in 0..Last |-> Body(n)]
      BY <1>3
    <2>2. \A n \in 0..Last : upTo[n] = Body(n)
      <3> HIDE DEF upTo, Body
      <3> QED BY <2>1
    <2>3. 0 \in 0..Last /\ 1..Last \subseteq 0..Last /\ 0 \notin 1..Last
      BY NamesTyped
    <2> HIDE DEF upTo
    <2> QED BY <2>2, <2>3
  <1> HIDE DEF upTo
  <1> QED BY <1>4, <1>5

LEMMA OverlapSymmetric == \A a, b : Overlap(a, b) <=> Overlap(b, a)
  BY DEF Overlap

(* What has been read up to some name. *)
ReadUpTo(text, n, spans) ==
    /\ \A o \in spans : \E k \in 1..n : o \in Occurrences(text, k)
    /\ \A a, b \in spans : a # b => ~Overlap(a, b)
    /\ \A k \in 1..n : \A o \in Occurrences(text, k) \ spans :
         \E a \in spans : \E j \in 1..k : a \in Occurrences(text, j) /\ Overlap(o, a)

(* One name more. *)
LEMMA ReadsOneMore ==
  ASSUME NEW text \in Seq(Words), NEW n \in 1..Last, NEW spans, ReadUpTo(text, n - 1, spans)
  PROVE  ReadUpTo(text, n, spans \cup Untaken(text, n, spans))
  <1> DEFINE new == Untaken(text, n, spans)
  <1>1. /\ n \in Nat \ {0} /\ n \in 1..n
        /\ \A k \in 1..n : k = n \/ k \in 1..(n-1)
        /\ \A k \in 1..(n-1) : k \in 1..n
    BY NamesTyped
  <1>2. \A o \in new : o \in Occurrences(text, n) /\ \A a \in spans : ~Overlap(o, a)
    BY DEF Untaken
  <1>3. \A o \in Occurrences(text, n) \ new : \E a \in spans : Overlap(o, a)
    BY DEF Untaken
  <1>4. \A o \in spans \cup new : \E k \in 1..n : o \in Occurrences(text, k)
    BY <1>1, <1>2 DEF ReadUpTo
  <1>5. ASSUME NEW a \in spans \cup new, NEW b \in spans \cup new, a # b
        PROVE  ~Overlap(a, b)
    <2>1. CASE a \in spans /\ b \in spans
      BY <1>5, <2>1 DEF ReadUpTo
    <2>2. CASE (a \in spans /\ b \in new) \/ (a \in new /\ b \in spans)
      BY <1>2, <2>2, OverlapSymmetric
    <2>3. CASE a \in new /\ b \in new
      <3>1. a \in Occurrences(text, n) /\ b \in Occurrences(text, n)
        BY <1>2, <2>3
      <3>2. a.start # b.start
        <4>1. a = [start |-> a.start, end |-> a.start + Len(Surfaces[n].words),
                   act |-> Surfaces[n].act, rank |-> n]
          BY <3>1, OccurrencesTyped
        <4>2. b = [start |-> b.start, end |-> b.start + Len(Surfaces[n].words),
                   act |-> Surfaces[n].act, rank |-> n]
          BY <3>1, OccurrencesTyped
        <4> QED BY <1>5, <4>1, <4>2
      <3>3. a.start \in Nat /\ b.start \in Nat
        BY <3>1, OccurrencesTyped
      <3>4. CASE a.start < b.start
        BY <3>1, <3>4, SameNameApart
      <3>5. CASE b.start < a.start
        BY <3>1, <3>5, SameNameApart, OverlapSymmetric
      <3> QED BY <3>2, <3>3, <3>4, <3>5
    <2> QED BY <2>1, <2>2, <2>3
  <1>6. ASSUME NEW k \in 1..n, NEW o \in Occurrences(text, k) \ (spans \cup new)
        PROVE  \E a \in spans \cup new :
                 \E j \in 1..k : a \in Occurrences(text, j) /\ Overlap(o, a)
    <2>1. CASE k = n
      <3>1. PICK a \in spans : Overlap(o, a)
        BY <1>3, <2>1
      <3>2. \E j \in 1..(n-1) : a \in Occurrences(text, j)
        BY DEF ReadUpTo
      <3> QED BY <1>1, <2>1, <3>1, <3>2
    <2>2. CASE k \in 1..(n-1)
      BY <2>2 DEF ReadUpTo
    <2> QED BY <1>1, <2>1, <2>2
  <1> HIDE DEF new
  <1> QED BY <1>4, <1>5, <1>6 DEF ReadUpTo, new

(* So all names are read: otherwise there is a first that is not. *)
LEMMA NamesRead ==
  ASSUME NEW text \in Seq(Words)
  PROVE  ReadUpTo(text, Last, ActSpans(text))
  <1>1. PICK spans : /\ spans[0] = {}
                     /\ \A n \in 1..Last :
                          spans[n] = spans[n-1] \cup Untaken(text, n, spans[n-1])
                     /\ ActSpans(text) = spans[Last]
    BY ActSpansSolved
  <1> DEFINE Wrong == {n \in 0..Last : ~ReadUpTo(text, n, spans[n])}
  <1>2. Wrong = {}
    <2>1. SUFFICES ASSUME Wrong # {} PROVE FALSE
      OBVIOUS
    <2>2. PICK n \in Wrong : \A k \in Wrong : n <= k
      <3>1. Wrong \in SUBSET Nat
        BY NamesTyped
      <3> HIDE DEF Wrong
      <3> QED BY <2>1, <3>1, LeastExists
    <2>3. n \in 0..Last /\ ~ReadUpTo(text, n, spans[n])
      OBVIOUS
    <2>4. n # 0
      <3>1. ReadUpTo(text, 0, {})
        BY DEF ReadUpTo
      <3> QED BY <1>1, <2>3, <3>1
    <2>5. n \in 1..Last /\ n - 1 \in 0..Last /\ ~(n <= n - 1)
      BY <2>3, <2>4, NamesTyped
    <2>6. ReadUpTo(text, n - 1, spans[n-1])
      BY <2>2, <2>5
    <2> HIDE DEF Wrong
    <2>7. ReadUpTo(text, n, spans[n-1] \cup Untaken(text, n, spans[n-1]))
      BY <2>5, <2>6, ReadsOneMore
    <2> QED BY <1>1, <2>3, <2>5, <2>7
  <1>3. Last \in 0..Last
    BY NamesTyped
  <1> QED BY <1>1, <1>2, <1>3

LEMMA SpansTyped ==
  ASSUME NEW text \in Seq(Words), NEW a \in ActSpans(text)
  PROVE  /\ a.start \in Nat \ {0} /\ a.end \in Nat /\ a.start < a.end /\ a.rank \in Nat
         /\ a.start \in DOMAIN text
  <1>1. PICK n \in 1..Last : a \in Occurrences(text, n)
    BY NamesRead DEF ReadUpTo
  <1>2. n \in Nat /\ Len(Surfaces[n].words) \in Nat \ {0}
    BY NamesTyped
  <1> QED BY <1>1, <1>2, OccurrencesTyped

LEMMA DistanceTyped ==
  ASSUME NEW x, NEW y, x.start \in Nat, x.end \in Nat, y.start \in Nat, y.end \in Nat
  PROVE  Distance(x, y) \in Nat
  BY DEF Distance

(* There is a nearest of some names, and it is nearest. *)
LEMMA NearestFound ==
  ASSUME NEW text \in Seq(Words), NEW near \in SUBSET ActSpans(text), near # {},
         NEW sec, sec.start \in Nat, sec.end \in Nat
  PROVE  /\ Nearest(sec, near) \in near
         /\ \A b \in near : Distance(sec, Nearest(sec, near)) <= Distance(sec, b)
  <1> DEFINE f == [a \in near |-> Distance(sec, a)]
             g == [a \in near |-> a.rank]
             h == [a \in near |-> a.start]
             IsNearest(a) == \A b \in near :
                \/ Distance(sec, a) < Distance(sec, b)
                \/ /\ Distance(sec, a) = Distance(sec, b)
                   /\ a.rank < b.rank \/ (a.rank = b.rank /\ a.start <= b.start)
  <1>1. \A a \in near : Distance(sec, a) \in Nat /\ a.rank \in Nat /\ a.start \in Nat
    BY SpansTyped, DistanceTyped
  <1>2. f \in Ranks(near) /\ g \in Ranks(near) /\ h \in Ranks(near)
    BY <1>1 DEF Ranks
  <1>3. PICK a \in near : \A b \in near :
          \/ f[a] < f[b]
          \/ f[a] = f[b] /\ (g[a] < g[b] \/ (g[a] = g[b] /\ h[a] <= h[b]))
    <2> HIDE DEF f, g, h
    <2> QED BY <1>2, FirstOfThree
  <1>4. IsNearest(a)
    BY <1>3
  <1>5. Nearest(sec, near) \in near /\ IsNearest(Nearest(sec, near))
    <2>1. Nearest(sec, near) = CHOOSE x \in near : IsNearest(x)
      BY DEF Nearest
    <2> HIDE DEF IsNearest
    <2> QED BY <1>4, <2>1
  <1> QED BY <1>1, <1>5

(* A reference to a section is made of the section and the nearest name. *)
LEMMA StatutesRead ==
  ASSUME NEW text \in Seq(Words), NEW ref \in Statutes(text)
  PROVE  \E i \in DOMAIN text, a \in ActSpans(text) :
           /\ ref.key = <<"stat", a.act, text[i]>>
           /\ ref.start = Least({i, a.start})
           /\ ref.end = Greatest({i + 1, a.end})
           /\ \A b \in ActSpans(text) : Distance([start |-> i, end |-> i + 1], a)
                                         <= Distance([start |-> i, end |-> i + 1], b)
  <1> DEFINE acts == ActSpans(text)
             Near(sec) == {a \in acts : Distance(sec, a) <= StatuteWindow}
  <1>1. PICK i \in DOMAIN text :
          LET sec == [start |-> i, end |-> i + 1]
              a == Nearest(sec, Near(sec))
          IN  /\ Near(sec) # {}
              /\ ref = [key   |-> <<"stat", a.act, text[sec.start]>>,
                        start |-> Least({sec.start, a.start}),
                        end   |-> Greatest({sec.end, a.end})]
    BY DEF Statutes
  <1> DEFINE sec == [start |-> i, end |-> i + 1]
             near == Near(sec)
             a == Nearest(sec, near)
  <1>2. i \in Nat
    BY LenProperties
  <1>3. near \in SUBSET acts /\ near # {}
    BY <1>1
  <1>4. a \in near /\ \A b \in near : Distance(sec, a) <= Distance(sec, b)
    <2>1. sec.start \in Nat /\ sec.end \in Nat
      BY <1>2
    <2> HIDE DEF near, sec
    <2> QED BY <1>3, <2>1, NearestFound
  <1>5. \A b \in acts : Distance(sec, a) <= Distance(sec, b)
    <2>1. \A b \in acts : Distance(sec, b) \in Nat
      BY <1>2, SpansTyped, DistanceTyped
    <2>2. Distance(sec, a) <= StatuteWindow /\ a \in acts
      BY <1>4
    <2>3. \A b \in acts \ near : ~(Distance(sec, b) <= StatuteWindow)
      OBVIOUS
    <2>4. StatuteWindow \in Nat
      BY CitationsAssumption
    <2> HIDE DEF near, sec, a, acts
    <2> QED BY <1>3, <1>4, <2>1, <2>2, <2>3, <2>4
  <1>6. /\ ref.key = <<"stat", a.act, text[i]>>
        /\ ref.start = Least({i, a.start}) /\ ref.end = Greatest({i + 1, a.end})
    BY <1>1
  <1> HIDE DEF a
  <1> QED BY <1>3, <1>4, <1>5, <1>6

LEMMA LeastOfTwo ==
  \A x, y \in Nat : /\ Least({x, y}) \in {x, y} /\ Least({x, y}) <= x /\ Least({x, y}) <= y
                    /\ Greatest({x, y}) \in {x, y}
                    /\ Greatest({x, y}) >= x /\ Greatest({x, y}) >= y
  <1> SUFFICES ASSUME NEW x \in Nat, NEW y \in Nat
               PROVE  /\ Least({x, y}) \in {x, y}
                      /\ Least({x, y}) <= x /\ Least({x, y}) <= y
                      /\ Greatest({x, y}) \in {x, y}
                      /\ Greatest({x, y}) >= x /\ Greatest({x, y}) >= y
    OBVIOUS
  <1>1. \E z \in {x, y} : \A w \in {x, y} : z <= w
    <2>1. CASE x <= y
      BY <2>1
    <2>2. CASE y <= x
      BY <2>2
    <2> QED BY <2>1, <2>2
  <1>2. \E z \in {x, y} : \A w \in {x, y} : z >= w
    <2>1. CASE x <= y
      BY <2>1
    <2>2. CASE y <= x
      BY <2>2
    <2> QED BY <2>1, <2>2
  <1> QED BY <1>1, <1>2 DEF Least, Greatest

(* Any text is read as it should be. *)
THEOREM ActsReadRight ==
  ASSUME NEW text \in Seq(Words)
  PROVE  ReadsActs(text)
  <1> DEFINE acts == ActSpans(text)
             all == UNION {Occurrences(text, n) : n \in DOMAIN Surfaces}
  <1>1. ReadUpTo(text, Last, acts)
    BY NamesRead
  <1>2. \A a, b \in acts : a # b => ~Overlap(a, b)
    BY <1>1 DEF ReadUpTo
  <1>3. ASSUME NEW o \in all \ acts
        PROVE  \E a \in acts : Overlap(o, a) /\ Surfaces[a.rank].chars >= Surfaces[o.rank].chars
    <2>1. PICK k \in 1..Last : o \in Occurrences(text, k)
      BY <1>3, NamesTyped
    <2>2. PICK a \in acts, j \in 1..k : a \in Occurrences(text, j) /\ Overlap(o, a)
      BY <1>1, <1>3, <2>1 DEF ReadUpTo
    <2>3. j \in 1..Last /\ (j = k \/ j < k)
      BY <2>2, NamesTyped
    <2>4. Surfaces[j].chars >= Surfaces[k].chars
      <3>1. j < k => Surfaces[j].chars >= Surfaces[k].chars
        BY <2>1, <2>3, NamesTyped, CitationsAssumption
      <3>2. Surfaces[j].chars \in Nat
        BY <2>3, NamesTyped
      <3> QED BY <2>3, <3>1, <3>2
    <2>5. o.rank = k /\ a.rank = j
      BY <2>1, <2>2, <2>3, OccurrencesTyped
    <2> QED BY <2>2, <2>4, <2>5
  <1>4. ASSUME NEW ref \in Statutes(text)
        PROVE  \E a \in acts, i \in DOMAIN text :
                 /\ ref.key = <<"stat", a.act, text[i]>>
                 /\ {a.start, i} \subseteq ref.start .. (ref.end - 1)
                 /\ \A b \in acts : Distance([start |-> i, end |-> i + 1], a)
                                     <= Distance([start |-> i, end |-> i + 1], b)
    <2>1. PICK i \in DOMAIN text, a \in acts :
            /\ ref.key = <<"stat", a.act, text[i]>>
            /\ ref.start = Least({i, a.start})
            /\ ref.end = Greatest({i + 1, a.end})
            /\ \A b \in acts : Distance([start |-> i, end |-> i + 1], a)
                                <= Distance([start |-> i, end |-> i + 1], b)
      BY StatutesRead
    <2>2. i \in Nat /\ a.start \in Nat /\ a.end \in Nat /\ a.start < a.end
      BY SpansTyped, LenProperties
    <2>3. /\ ref.start \in Nat /\ ref.start <= i /\ ref.start <= a.start
          /\ ref.end \in Nat /\ ref.end >= i + 1 /\ ref.end >= a.end
      <3> DEFINE j == i + 1
      <3>1. j \in Nat
        BY <2>2
      <3>2. ref.end = Greatest({j, a.end})
        BY <2>1
      <3> HIDE DEF j
      <3>3. ref.start \in {i, a.start} /\ ref.start <= i /\ ref.start <= a.start
        BY <2>1, <2>2, LeastOfTwo
      <3>4. ref.end \in {j, a.end} /\ ref.end >= j /\ ref.end >= a.end
        BY <2>2, <3>1, <3>2, LeastOfTwo
      <3> QED BY <2>2, <3>1, <3>3, <3>4 DEF j
    <2>4. {a.start, i} \subseteq ref.start .. (ref.end - 1)
      BY <2>2, <2>3
    <2> QED BY <2>1, <2>4
  <1> HIDE DEF acts
  <1> QED BY <1>2, <1>3, <1>4 DEF ReadsActs, acts

-----------------------------------------------------------------------------
(* From here on about the report. *)

LEMMA AuthoritiesTyped ==
  ASSUME NEW text \in Seq(Words), NEW ref \in Authorities(text)
  PROVE  ref.start \in Nat /\ ref.end \in Nat
  <1>1. CASE ref \in Statutes(text)
    <2>1. PICK i \in DOMAIN text, a \in ActSpans(text) :
            ref.start = Least({i, a.start}) /\ ref.end = Greatest({i + 1, a.end})
      BY <1>1, StatutesRead
    <2> DEFINE j == i + 1
    <2>2. i \in Nat /\ j \in Nat /\ a.start \in Nat /\ a.end \in Nat
      BY SpansTyped, LenProperties
    <2>3. ref.end = Greatest({j, a.end})
      BY <2>1
    <2> HIDE DEF j
    <2> QED BY <2>1, <2>2, <2>3, LeastOfTwo
  <1>2. CASE ref \notin Statutes(text)
    <2>1. PICK i \in DOMAIN text : ref.start = i /\ ref.end = i + 1
      BY <1>2 DEF Authorities
    <2> QED BY <2>1, LenProperties
  <1> QED BY <1>1, <1>2

(* What is cited nearest to a quotation is cited near it. *)
LEMMA NearestCitedNear ==
  ASSUME NEW text \in Seq(Words), NEW quote \in Quotes(text),
         NEW near \in SUBSET Authorities(text), near # {}
  PROVE  NearestCited(quote, near) \in near
  <1> DEFINE f == [a \in near |-> Distance(quote, a)]
             g == [a \in near |-> a.start]
             h == [a \in near |-> a.end]
             IsFirst(a) == \A b \in near :
                \/ Distance(quote, a) < Distance(quote, b)
                \/ /\ Distance(quote, a) = Distance(quote, b)
                   /\ a.start < b.start \/ (a.start = b.start /\ a.end <= b.end)
  <1>1. quote.start \in Nat /\ quote.end \in Nat
    <2>1. PICK i \in DOMAIN text : quote.start = i /\ quote.end = i + 1
      BY DEF Quotes
    <2> QED BY <2>1, LenProperties
  <1>2. \A a \in near : Distance(quote, a) \in Nat /\ a.start \in Nat /\ a.end \in Nat
    BY <1>1, AuthoritiesTyped, DistanceTyped
  <1>3. f \in Ranks(near) /\ g \in Ranks(near) /\ h \in Ranks(near)
    BY <1>2 DEF Ranks
  <1>4. PICK a \in near : \A b \in near :
          \/ f[a] < f[b]
          \/ f[a] = f[b] /\ (g[a] < g[b] \/ (g[a] = g[b] /\ h[a] <= h[b]))
    <2> HIDE DEF f, g, h
    <2> QED BY <1>3, FirstOfThree
  <1>5. IsFirst(a)
    BY <1>4
  <1>6. NearestCited(quote, near) = CHOOSE x \in near : IsFirst(x)
    BY DEF NearestCited
  <1> HIDE DEF IsFirst
  <1> QED BY <1>5, <1>6

(* One file without a finding that counts: it cites held law in force... *)
LEMMA CitesHeldLawIff ==
  ASSUME NEW file
  PROVE  CitesHeldLaw(file) <=>
           /\ UnheldKeys(file, held) = {}
           /\ {k \in AuthorityKeys(file.text) : Repealed(k, held)} = {}
  BY DEF CitesHeldLaw, UnheldKeys, Repealed

(* ...and when all of it is held, no quotation is RED. *)
LEMMA QuotesHeldTextIff ==
  ASSUME NEW file, file.text \in Seq(Words), UnheldKeys(file, held) = {}
  PROVE  QuotesHeldText(file) <=> \A f \in QuoteFindings(file, held) : f.verdict # "RED"
  <1> DEFINE near(q) == NearAuthorities(q, Authorities(file.text))
             Quoted(q) == \E a \in near(q) : \E p \in HeldFor(a.key, held) :
                             ~p.repealed /\ q.passage \in p.passages
  <1>1. ASSUME NEW q \in Quotes(file.text), near(q) # {}
        PROVE  VerdictNear(q, near(q), held) # "RED" <=> Quoted(q)
    <2>1. near(q) \in SUBSET Authorities(file.text)
      BY DEF NearAuthorities
    <2>2. NearestCited(q, near(q)) \in near(q)
      <3> HIDE DEF near
      <3> QED BY <1>1, <2>1, NearestCitedNear
    <2>3. \A a \in near(q) : HeldFor(a.key, held) # {}
      BY <2>1 DEF UnheldKeys, AuthorityKeys
    <2>4. \A a \in near(q) :
            Verdict(q, a.key, held) = IF \E p \in HeldFor(a.key, held) :
                                             ~p.repealed /\ q.passage \in p.passages
                                      THEN "GREEN" ELSE "RED"
      BY <2>3 DEF Verdict
    <2> HIDE DEF near
    <2> QED BY <2>2, <2>4 DEF VerdictNear
  <1>2. /\ \A f \in QuoteFindings(file, held) : \E q \in Quotes(file.text) :
             near(q) # {} /\ f.verdict = VerdictNear(q, near(q), held)
        /\ \A q \in Quotes(file.text) : near(q) # {} =>
             \E f \in QuoteFindings(file, held) : f.verdict = VerdictNear(q, near(q), held)
    <2> DEFINE F(q) == Finding("quote", file, <<>>, VerdictNear(q, near(q), held), q.start)
               Found == {F(q) : q \in {x \in Quotes(file.text) : near(x) # {}}}
    <2>1. QuoteFindings(file, held) = Found
      BY DEF QuoteFindings
    <2>2. \A q : F(q).verdict = VerdictNear(q, near(q), held)
      BY DEF Finding
    <2> HIDE DEF near, F
    <2> QED BY <2>1, <2>2
  <1>3. QuotesHeldText(file) <=> \A q \in Quotes(file.text) : near(q) # {} => Quoted(q)
    BY DEF QuotesHeldText
  <1> HIDE DEF near, Quoted
  <1> QED BY <1>1, <1>2, <1>3

-----------------------------------------------------------------------------
Layers == {ANALYSIS, REPORTS, SERVED}

LEMMA LayersTyped ==
  /\ \A file : LayerOf(file) \in Layers
  /\ \A l \in Layers : l \in Int /\ l <= SERVED /\ ~(LAYER_OTHER > l)
  BY DEF LayerOf, Layers, SERVED, REPORTS, ANALYSIS, LAYER_OTHER

Papers == [path : {Dirs[i] : i \in DOMAIN Dirs} \X Nat, marked : BOOLEAN, text : Seq(Words)]

(* The loops over the files have gathered what each of them has, and the layer of a key
   without a source is not below that of any file that cites it. *)
GroundingInv ==
    /\ files \in Seq(Papers)
    /\ findings = UNION {FileFindings(file, held) : file \in Scanned}
    /\ DOMAIN unheld = UNION {UnheldKeys(file, held) : file \in Scanned}
    /\ \A k \in DOMAIN unheld :
         /\ unheld[k].top \in Layers
         /\ \A file \in Scanned :
              k \in UnheldKeys(file, held) => LayerOf(file) <= unheld[k].top

LEMMA ScanKeeps == GroundingInv /\ Scan => GroundingInv'
  <1> SUFFICES ASSUME GroundingInv, Scan PROVE GroundingInv'
    OBVIOUS
  <1>1. PICK dir \in {Dirs[i] : i \in DOMAIN Dirs}, n \in 1..(Len(files) + 1),
             marked \in BOOLEAN, text \in FileTexts[Len(files) + 1] :
          LET file == [path |-> <<dir, n>>, marked |-> marked, text |-> text]
          IN  /\ files' = Append(files, file)
              /\ findings' = findings \cup FileFindings(file, held)
              /\ unheld' = Accumulate(unheld, file, held)
    BY DEF Scan
  <1> DEFINE file == [path |-> <<dir, n>>, marked |-> marked, text |-> text]
  <1>2. held' = held /\ files' = Append(files, file)
        /\ findings' = findings \cup FileFindings(file, held)
        /\ unheld' = Accumulate(unheld, file, held)
    BY <1>1 DEF Scan
  <1>3. file \in Papers
    <2>1. Len(files) \in Nat /\ Len(files) < Len(FileTexts)
      BY LenProperties DEF GroundingInv, Scan
    <2>2. Len(FileTexts) \in Nat
      BY GroundingAssumption, LenProperties
    <2>3. FileTexts[Len(files) + 1] \in SUBSET Seq(Words)
      <3> DEFINE m == Len(files) + 1
      <3>1. m \in 1..Len(FileTexts)
        BY <2>1, <2>2
      <3> HIDE DEF m
      <3>2. FileTexts[m] \in SUBSET Seq(Words)
        BY <3>1, GroundingAssumption, ElementOfSeq
      <3> QED BY <3>2 DEF m
    <2>4. n \in Nat
      BY <2>1
    <2> QED BY <2>3, <2>4 DEF Papers
  <1> HIDE DEF file
  <1>4. files' \in Seq(Papers) /\ Scanned' = Scanned \cup {file}
    <2>1. /\ files' \in Seq(Papers) /\ Len(files') = Len(files) + 1
          /\ \A i \in 1..Len(files) : files'[i] = files[i]
          /\ files'[Len(files) + 1] = file
      BY <1>2, <1>3, AppendProperties DEF GroundingInv
    <2>2. /\ Len(files) \in Nat /\ DOMAIN files = 1..Len(files)
          /\ DOMAIN files' = 1..(Len(files) + 1)
      BY <2>1, LenProperties DEF GroundingInv
    <2>3. DOMAIN files' = DOMAIN files \cup {Len(files) + 1}
      BY <2>2
    <2>4. Scanned' = {files'[i] : i \in DOMAIN files'}
      BY DEF Scanned
    <2>5. Scanned' = Scanned \cup {file}
      BY <2>1, <2>2, <2>3, <2>4 DEF Scanned
    <2> QED BY <2>1, <2>5
  <1>5. findings' = UNION {FileFindings(f, held') : f \in Scanned'}
    BY <1>2, <1>4 DEF GroundingInv
  <1>6. DOMAIN unheld' = UNION {UnheldKeys(f, held') : f \in Scanned'}
    <2>1. DOMAIN unheld' = DOMAIN unheld \cup UnheldKeys(file, held)
      BY <1>2 DEF Accumulate
    <2> QED BY <1>2, <1>4, <2>1 DEF GroundingInv
  <1>7. ASSUME NEW k \in DOMAIN unheld'
        PROVE  /\ unheld'[k].top \in Layers
               /\ \A f \in Scanned' :
                    k \in UnheldKeys(f, held') => LayerOf(f) <= unheld'[k].top
    <2> DEFINE old == IF k \in DOMAIN unheld THEN unheld[k]
                      ELSE [files |-> {}, top |-> LAYER_OTHER]
    <2>1. k \in DOMAIN unheld \cup UnheldKeys(file, held)
      BY <1>2 DEF Accumulate
    <2>2. unheld'[k] =
            IF k \notin UnheldKeys(file, held) THEN old
            ELSE [files |-> old.files \cup {file.path},
                  top   |-> IF LayerOf(file) > old.top THEN LayerOf(file) ELSE old.top]
      BY <1>2, <2>1 DEF Accumulate
    <2>3. k \notin DOMAIN unheld => \A f \in Scanned : k \notin UnheldKeys(f, held)
      BY DEF GroundingInv
    <2>4. old.top \in Layers \cup {LAYER_OTHER} /\ (k \in DOMAIN unheld => old.top \in Layers)
      BY DEF GroundingInv
    <2>5. \A f \in Scanned : k \in UnheldKeys(f, held) => LayerOf(f) <= old.top
      BY <2>3 DEF GroundingInv
    <2> HIDE DEF old
    <2>6. CASE k \notin UnheldKeys(file, held)
      BY <1>2, <1>4, <2>1, <2>2, <2>4, <2>5, <2>6
    <2>7. CASE k \in UnheldKeys(file, held)
      <3> DEFINE top == IF LayerOf(file) > old.top THEN LayerOf(file) ELSE old.top
      <3>1. unheld'[k].top = top
        BY <2>2, <2>7
      <3>2. /\ LayerOf(file) \in Layers /\ LayerOf(file) \in Int
            /\ old.top \in Int /\ ~(LAYER_OTHER > LayerOf(file))
            /\ LayerOf(file) # LAYER_OTHER
        BY <2>4, LayersTyped DEF Layers, SERVED, REPORTS, ANALYSIS, LAYER_OTHER
      <3>3. LAYER_OTHER \in Int
        BY DEF LAYER_OTHER
      <3>4. top \in Layers /\ LayerOf(file) <= top /\ old.top <= top
        BY <2>4, <3>2, <3>3
      <3> HIDE DEF top
      <3>5. \A f \in Scanned : k \in UnheldKeys(f, held) => LayerOf(f) <= top
        <4>1. \A f : LayerOf(f) \in Int
          BY LayersTyped
        <4>2. top \in Int
          BY <3>4, LayersTyped
        <4> QED BY <2>5, <3>2, <3>4, <4>1, <4>2
      <3> QED BY <1>2, <1>4, <3>1, <3>4, <3>5
    <2> QED BY <2>6, <2>7
  <1> QED BY <1>4, <1>5, <1>6, <1>7 DEF GroundingInv

LEMMA GroundingInvariance == GroundingSpec => []GroundingInv
  <1>1. GroundingInit => GroundingInv
    <2> SUFFICES ASSUME GroundingInit PROVE GroundingInv
      OBVIOUS
    <2>1. files = <<>> /\ findings = {} /\ unheld = <<>>
      BY DEF GroundingInit
    <2>2. DOMAIN files = {} /\ Scanned = {} /\ files \in Seq(Papers) /\ DOMAIN unheld = {}
      BY <2>1, EmptySeq DEF Scanned
    <2> QED BY <2>1, <2>2 DEF GroundingInv
  <1>2. GroundingInv /\ [GroundingNext]_groundingVars => GroundingInv'
    <2> SUFFICES ASSUME GroundingInv, [GroundingNext]_groundingVars PROVE GroundingInv'
      OBVIOUS
    <2>1. CASE Scan
      BY <2>1, ScanKeeps
    <2>2. CASE RunSelfTest \/ UNCHANGED groundingVars
      <3>1. held' = held /\ files' = files /\ findings' = findings /\ unheld' = unheld
        BY <2>2 DEF RunSelfTest, groundingVars
      <3> QED BY <3>1 DEF GroundingInv, Scanned
    <2> QED BY <2>1, <2>2 DEF GroundingNext
  <1> QED BY <1>1, <1>2, PTL DEF GroundingSpec

(* What each kind of finding, in the order of FileFindings, says of its file. *)
LEMMA FindingsOfFile ==
  ASSUME NEW file, NEW f
  PROVE  f \in FileFindings(file, held) <=>
           \/ f \in QuoteFindings(file, held)
           \/ \E i \in Malformed(file.text) : f = Finding("malformed", file, <<>>, "none", i)
           \/ \E k \in {k \in AuthorityKeys(file.text) : Repealed(k, held)} :
                f = Finding("repealed", file, k, "RED", 0)
  BY DEF FileFindings

LEMMA QuoteFindingsTyped ==
  ASSUME NEW file, NEW f \in QuoteFindings(file, held)
  PROVE  f.kind = "quote" /\ f.layer = LayerOf(file)
  BY DEF QuoteFindings, Finding

(* Exit code 0, when there is neither a key without a source, nor a repealed one, nor
   a RED quotation. *)
LEMMA ExitCodeIff ==
  ASSUME GroundingInv
  PROVE  ExitCode = 0 <=>
           \A file \in Scanned :
             /\ UnheldKeys(file, held) = {}
             /\ {k \in AuthorityKeys(file.text) : Repealed(k, held)} = {}
             /\ \A f \in QuoteFindings(file, held) : f.verdict # "RED"
  <1> DEFINE Counts(f) == \/ f.kind = "quote" /\ f.verdict = "RED"
                          \/ f.kind \in {"unheld", "repealed"}
             Repeals(file) == {k \in AuthorityKeys(file.text) : Repealed(k, held)}
  <1>1. ExitCode = 0 <=> \A f \in Report : ~Counts(f)
    BY DEF ExitCode
  <1>2. (\E f \in WithoutSource(unheld) : Counts(f)) <=> DOMAIN unheld # {}
    <2> DEFINE row(k) == [kind |-> "unheld", layer |-> unheld[k].top,
                          file |-> FirstPath(unheld[k].files), key |-> k, verdict |-> "none",
                          at |-> 0, blast |-> Cardinality(unheld[k].files)]
    <2>1. WithoutSource(unheld) = {row(k) : k \in DOMAIN unheld}
      BY DEF WithoutSource
    <2>2. \A k : Counts(row(k))
      OBVIOUS
    <2> HIDE DEF Counts, row
    <2> QED BY <2>1, <2>2
  <1>3. DOMAIN unheld = {} <=> \A file \in Scanned : UnheldKeys(file, held) = {}
    BY DEF GroundingInv
  <1>4. ASSUME NEW file
        PROVE  (\A f \in FileFindings(file, held) : ~Counts(f)) <=>
                  /\ Repeals(file) = {}
                  /\ \A f \in QuoteFindings(file, held) : f.verdict # "RED"
    <2>1. \A i : ~Counts(Finding("malformed", file, <<>>, "none", i))
      BY DEF Finding
    <2>2. \A k : Counts(Finding("repealed", file, k, "RED", 0))
      BY DEF Finding
    <2>3. \A f \in QuoteFindings(file, held) : Counts(f) <=> f.verdict = "RED"
      BY QuoteFindingsTyped
    <2> HIDE DEF Counts
    <2> QED BY <2>1, <2>2, <2>3, FindingsOfFile
  <1>5. (\A f \in findings : ~Counts(f)) <=>
           \A file \in Scanned : \A f \in FileFindings(file, held) : ~Counts(f)
    BY DEF GroundingInv
  <1>6. (\A f \in Report : ~Counts(f)) <=>
           /\ \A f \in findings : ~Counts(f)
           /\ \A f \in WithoutSource(unheld) : ~Counts(f)
    BY DEF Report
  <1> HIDE DEF Counts
  <1> QED BY <1>1, <1>2, <1>3, <1>4, <1>5, <1>6

LEMMA ScannedTyped ==
  ASSUME GroundingInv, NEW file \in Scanned PROVE file.text \in Seq(Words)
  <1>1. PICK i \in DOMAIN files : file = files[i]
    BY DEF Scanned
  <1>2. files[i] \in Papers
    BY LenProperties, ElementOfSeq DEF GroundingInv
  <1> QED BY <1>1, <1>2 DEF Papers

LEMMA GroundedImplies == GroundingInv => CleanExitIsGrounded
  <1> SUFFICES ASSUME GroundingInv PROVE CleanExitIsGrounded
    OBVIOUS
  <1>1. ASSUME NEW file \in Scanned
        PROVE  CitesHeldLaw(file) /\ QuotesHeldText(file) <=>
                 /\ UnheldKeys(file, held) = {}
                 /\ {k \in AuthorityKeys(file.text) : Repealed(k, held)} = {}
                 /\ \A f \in QuoteFindings(file, held) : f.verdict # "RED"
    BY <1>1, ScannedTyped, CitesHeldLawIff, QuotesHeldTextIff
  <1> QED BY <1>1, ExitCodeIff DEF CleanExitIsGrounded

(* A filing that is gated on exit code 0 cites held law in force and quotes what it
   says, whatever the corpus, the library and the distances; and is let through
   whenever it does. *)
THEOREM CleanExitSafety == GroundingSpec => []CleanExitIsGrounded
  BY GroundingInvariance, GroundedImplies, PTL

LEMMA ServedFirstImplies == GroundingInv => ServedErrorsComeFirst
  <1> SUFFICES ASSUME GroundingInv,
                      NEW file \in Scanned, LayerOf(file) = SERVED,
                      \/ ~CitesHeldLaw(file)
                      \/ Malformed(file.text) # {}
                      \/ \E f \in QuoteFindings(file, held) : f.verdict = "RED",
                      NEW top \in Report, \A f \in Report : f = top \/ ~RowBefore(f, top)
               PROVE  top.layer = SERVED /\ Severity(top) = 2
    BY DEF ServedErrorsComeFirst
  <1>1. \E f \in Report : f.layer = SERVED /\ Severity(f) = 2
    <2>1. FileFindings(file, held) \subseteq Report
      BY DEF Report, GroundingInv
    <2>2. CASE UnheldKeys(file, held) # {}
      <3>1. PICK k \in UnheldKeys(file, held) : TRUE
        BY <2>2
      <3>2. /\ k \in DOMAIN unheld /\ unheld[k].top \in Layers
            /\ LayerOf(file) <= unheld[k].top
        BY <3>1 DEF GroundingInv
      <3>3. unheld[k].top = SERVED
        BY <3>2, LayersTyped DEF Layers, SERVED, REPORTS, ANALYSIS
      <3> DEFINE row == [kind |-> "unheld", layer |-> unheld[k].top,
                         file |-> FirstPath(unheld[k].files), key |-> k, verdict |-> "none",
                         at |-> 0, blast |-> Cardinality(unheld[k].files)]
      <3>4. row \in Report
        BY <3>2 DEF Report, WithoutSource
      <3>5. row.layer = SERVED /\ Severity(row) = 2
        BY <3>3 DEF Severity
      <3> HIDE DEF row
      <3> QED BY <3>4, <3>5
    <2>3. CASE {k \in AuthorityKeys(file.text) : Repealed(k, held)} # {}
      <3>1. PICK k \in {k \in AuthorityKeys(file.text) : Repealed(k, held)} : TRUE
        BY <2>3
      <3> DEFINE row == Finding("repealed", file, k, "RED", 0)
      <3>2. row \in FileFindings(file, held)
        BY <3>1, FindingsOfFile
      <3>3. row.layer = SERVED /\ Severity(row) = 2
        BY DEF Finding, Severity
      <3> HIDE DEF row
      <3> QED BY <2>1, <3>2, <3>3
    <2>4. CASE Malformed(file.text) # {}
      <3>1. PICK i \in Malformed(file.text) : TRUE
        BY <2>4
      <3> DEFINE row == Finding("malformed", file, <<>>, "none", i)
      <3>2. row \in FileFindings(file, held)
        BY <3>1, FindingsOfFile
      <3>3. row.layer = SERVED /\ Severity(row) = 2
        BY DEF Finding, Severity
      <3> HIDE DEF row
      <3> QED BY <2>1, <3>2, <3>3
    <2>5. CASE \E f \in QuoteFindings(file, held) : f.verdict = "RED"
      <3>1. PICK f \in QuoteFindings(file, held) : f.verdict = "RED"
        BY <2>5
      <3>2. f \in FileFindings(file, held) /\ f.layer = SERVED /\ Severity(f) = 2
        BY <3>1, FindingsOfFile, QuoteFindingsTyped DEF Severity
      <3> QED BY <2>1, <3>2
    <2> QED BY <2>2, <2>3, <2>4, <2>5, CitesHeldLawIff
  <1>2. \A f \in Report : f.layer \in Layers /\ Severity(f) \in {0, 1, 2}
    <2>1. ASSUME NEW f \in findings PROVE f.layer \in Layers
      <3>1. PICK g \in Scanned : f \in FileFindings(g, held)
        BY <2>1 DEF GroundingInv
      <3>2. f.layer = LayerOf(g)
        BY <3>1, FindingsOfFile, QuoteFindingsTyped DEF Finding
      <3> QED BY <3>2, LayersTyped
    <2>2. \A f \in WithoutSource(unheld) : f.layer \in Layers
      BY DEF WithoutSource, GroundingInv
    <2>3. \A f : Severity(f) \in {0, 1, 2}
      BY DEF Severity
    <2> QED BY <2>1, <2>2, <2>3 DEF Report
  <1>3. PICK f \in Report : f.layer = SERVED /\ Severity(f) = 2
    BY <1>1
  <1>4. CASE f = top
    BY <1>3, <1>4
  <1>5. CASE f # top
    <2>1. ~(f.layer > top.layer)
      BY <1>5 DEF RowBefore
    <2>2. top.layer = SERVED
      BY <1>2, <1>3, <2>1 DEF Layers, SERVED, REPORTS, ANALYSIS
    <2>3. ~(Severity(f) > Severity(top))
      BY <1>3, <1>5, <2>2 DEF RowBefore
    <2> QED BY <1>2, <1>3, <2>2, <2>3
  <1> QED BY <1>4, <1>5

(* A fault of a served file heads the report, whatever else there is to report. *)
THEOREM ServedFirstSafety == GroundingSpec => []ServedErrorsComeFirst
  BY GroundingInvariance, ServedFirstImplies, PTL

(* Every scanned text is read as it should be. *)
THEOREM ActsReadSafety == GroundingSpec => []ActsAreRead
  <1>1. GroundingInv => ActsAreRead
    BY ScannedTyped, ActsReadRight DEF ActsAreRead
  <1> QED BY <1>1, GroundingInvariance, PTL

-----------------------------------------------------------------------------
(* The words of one kind are not those of another: a quoted passage is no citation, and
   neither is a section. *)
KindsApart ==
    /\ Cites \cap Passages = {} /\ Sections \cap (Cites \cup Passages) = {}

(* A text without sections cites what it cites in so many words. *)
LEMMA NoSectionsNoStatutes ==
  ASSUME NEW text, \A i \in DOMAIN text : text[i] \notin Sections
  PROVE  Statutes(text) = {}
  <1> DEFINE all == {[start |-> i, end |-> i + 1] :
                        i \in {j \in DOMAIN text : text[j] \in Sections}}
  <1>1. all = {}
    OBVIOUS
  <1> QED BY <1>1 DEF Statutes

LEMMA PlantedAuthorities ==
  ASSUME KindsApart, NEW w \in Cites, NEW q \in Passages
  PROVE  /\ Authorities(<<w, q>>) = {[key |-> <<"cite", CiteKey[w]>>, start |-> 1, end |-> 2]}
         /\ Authorities(<<w>>) = {[key |-> <<"cite", CiteKey[w]>>, start |-> 1, end |-> 2]}
         /\ Quotes(<<w, q>>) = {[passage |-> q, start |-> 2, end |-> 3]}
  <1> DEFINE two == <<w, q>>
             one == <<w>>
  <1>1. /\ DOMAIN two = {1, 2} /\ two[1] = w /\ two[2] = q
        /\ DOMAIN one = {1} /\ one[1] = w
    OBVIOUS
  <1> HIDE DEF two, one
  <1>2. Statutes(two) = {} /\ Statutes(one) = {}
    BY <1>1, NoSectionsNoStatutes DEF KindsApart
  <1>3. {j \in DOMAIN two : two[j] \in Cites} = {1} /\ {j \in DOMAIN one : one[j] \in Cites} = {1}
    BY <1>1 DEF KindsApart
  <1>4. {j \in DOMAIN two : two[j] \in Passages} = {2}
    BY <1>1 DEF KindsApart
  <1>5. /\ Authorities(two) = {[key |-> <<"cite", CiteKey[w]>>, start |-> 1, end |-> 2]}
        /\ Authorities(one) = {[key |-> <<"cite", CiteKey[w]>>, start |-> 1, end |-> 2]}
    BY <1>1, <1>2, <1>3 DEF Authorities
  <1>6. Quotes(two) = {[passage |-> q, start |-> 2, end |-> 3]}
    BY <1>1, <1>4 DEF Quotes
  <1> QED BY <1>5, <1>6 DEF two, one

(* What run_selftest plants: a text, and a file that cites it for a quotation. *)
Planted(w, good) ==
    {[title |-> <<w>>, stem |-> {}, passages |-> {good}, repealed |-> FALSE]}
PlantedFile(w, q) == [path |-> <<"analysis", 1>>, marked |-> FALSE, text |-> <<w, q>>]

(* The planted text gives what it has and refutes what it has not. *)
LEMMA PlantedVerdicts ==
  ASSUME KindsApart, NEW w \in Cites, NEW good \in Passages, NEW q \in Passages
  PROVE  /\ QuoteFindings(PlantedFile(w, q), Planted(w, good)) # {}
         /\ \A f \in QuoteFindings(PlantedFile(w, q), Planted(w, good)) :
              f.verdict = IF q = good THEN "GREEN" ELSE "RED"
  <1> DEFINE planted == Planted(w, good)
             file == PlantedFile(w, q)
             key == <<"cite", CiteKey[w]>>
             ref == [key |-> key, start |-> 1, end |-> 2]
             quote == [passage |-> q, start |-> 2, end |-> 3]
             p == [title |-> <<w>>, stem |-> {}, passages |-> {good}, repealed |-> FALSE]
             verdict == IF q = good THEN "GREEN" ELSE "RED"
  <1>1. /\ Authorities(file.text) = {ref} /\ Quotes(file.text) = {quote}
        /\ Authorities(<<w>>) = {ref}
    BY PlantedAuthorities DEF PlantedFile
  <1>a. p.title = <<w>> /\ p.stem = {} /\ p.passages = {good} /\ p.repealed = FALSE
    OBVIOUS
  <1>b. quote.passage = q /\ quote.start = 2 /\ quote.end = 3
    OBVIOUS
  <1>c. ref.key = key /\ ref.start = 1 /\ ref.end = 2
    OBVIOUS
  <1>d. planted = {p}
    BY DEF Planted
  <1> HIDE DEF p, quote, ref, key, planted, file
  <1>2. SubjectKeys(p) = {key}
    BY <1>1, <1>a, <1>c DEF SubjectKeys, AuthorityKeys
  <1>3. HeldFor(key, planted) = {p}
    BY <1>2, <1>d DEF HeldFor
  <1>4. Verdict(quote, key, planted) = verdict
    BY <1>3, <1>a, <1>b DEF Verdict
  <1>5. Distance(quote, ref) = 0
    BY <1>b, <1>c DEF Distance
  <1>6. NearAuthorities(quote, {ref}) = {ref}
    BY <1>5, CitationsAssumption DEF NearAuthorities
  <1>7. NearestCited(quote, {ref}) = ref
    BY DEF NearestCited
  <1>8. VerdictNear(quote, {ref}, planted) = verdict
    BY <1>4, <1>7, <1>c DEF VerdictNear
  <1> DEFINE near == [x \in {quote} |-> NearAuthorities(x, {ref})]
             F(x) == Finding("quote", file, <<>>, VerdictNear(x, near[x], planted), x.start)
  <1>9. QuoteFindings(file, planted) = {F(x) : x \in {y \in DOMAIN near : near[y] # {}}}
    BY <1>1 DEF QuoteFindings
  <1>10. DOMAIN near = {quote} /\ near[quote] = {ref}
    BY <1>6
  <1>11. F(quote).verdict = verdict
    BY <1>8, <1>10 DEF Finding
  <1> HIDE DEF near, F, verdict
  <1>12. QuoteFindings(file, planted) = {F(quote)}
    BY <1>9, <1>10
  <1> QED BY <1>11, <1>12 DEF verdict, planted, file

NotRefused == pc # "refused"

(* ground-check never refuses to run: whatever text it plants, the quotation that the text
   has is GREEN and the one that it has not is RED, for any body of law. *)
THEOREM SelfTestHolds ==
  ASSUME KindsApart PROVE GroundingSpec => []NotRefused
  <1>1. ASSUME NEW w \in Cites, NEW good \in Passages, NEW bad \in Passages, good # bad
        PROVE  SelfTest(w, good, bad)
    <2>1. /\ {f.verdict : f \in QuoteFindings(PlantedFile(w, good), Planted(w, good))}
                = {"GREEN"}
          /\ {f.verdict : f \in QuoteFindings(PlantedFile(w, bad), Planted(w, good))}
                = {"RED"}
      BY <1>1, PlantedVerdicts
    <2> QED BY <2>1 DEF SelfTest, PlantedFile, Planted
  <1>2. GroundingInit => NotRefused
    BY DEF NotRefused, GroundingInit
  <1>3. NotRefused /\ [GroundingNext]_groundingVars => NotRefused'
    BY <1>1 DEF NotRefused, GroundingNext, RunSelfTest, Scan, groundingVars
  <1> QED BY <1>2, <1>3, PTL DEF GroundingSpec

(* A fault that ground-check has found stays found: whatever files are scanned after it,
   the exit code does not become 0 again. *)
THEOREM FaultsStay == GroundingSpec => [][ExitCode # 0 => ExitCode' # 0]_groundingVars
  <1>1. ASSUME CleanExitIsGrounded, CleanExitIsGrounded', GroundingInv, GroundingNext
        PROVE  ExitCode # 0 => ExitCode' # 0
    <2>1. held' = held /\ Scanned \subseteq Scanned'
      <3>1. CASE RunSelfTest
        BY <3>1 DEF RunSelfTest, Scanned
      <3>2. CASE Scan
        <4>1. PICK file : files' = Append(files, file)
          BY <3>2 DEF Scan
        <4>2. \A i \in DOMAIN files : i \in DOMAIN files' /\ files'[i] = files[i]
          BY <1>1, <4>1, AppendProperties DEF GroundingInv
        <4> QED BY <3>2, <4>2 DEF Scan, Scanned
      <3> QED BY <1>1, <3>1, <3>2 DEF GroundingNext
    <2>2. ASSUME NEW file \in Scanned, ExitCode' = 0
          PROVE  CitesHeldLaw(file) /\ QuotesHeldText(file)
      <3>1. CitesHeldLaw(file)' /\ QuotesHeldText(file)'
        BY <1>1, <2>1, <2>2 DEF CleanExitIsGrounded
      <3> QED BY <2>1, <3>1 DEF CitesHeldLaw, QuotesHeldText
    <2> QED BY <1>1, <2>2 DEF CleanExitIsGrounded
  <1>2. ASSUME CleanExitIsGrounded, CleanExitIsGrounded', GroundingInv,
               [GroundingNext]_groundingVars
        PROVE  [ExitCode # 0 => ExitCode' # 0]_groundingVars
    BY <1>1, <1>2
  <1> QED BY <1>2, GroundingInvariance, CleanExitSafety, PTL DEF GroundingSpec

-----------------------------------------------------------------------------
(* Claims *)

ClaimsInv == fetched \subseteq asked /\ asked \subseteq indexed /\ indexed \subseteq Documents

LEMMA ClaimsInvariance == ClaimsSpec => []ClaimsInv
  <1>1. ClaimsInit => ClaimsInv
    BY DEF ClaimsInit, ClaimsInv
  <1>2. ClaimsInv /\ [ClaimsNext]_claimsVars => ClaimsInv'
    BY DEF ClaimsInv, ClaimsNext, IndexDocument, Ask, claimsVars
  <1> QED BY <1>1, <1>2, PTL DEF ClaimsSpec

(* A finding is a conflict of what one person said for and against. *)
LEMMA FindingIff ==
  ASSUME NEW a, NEW b
  PROVE  Conflict(a, b) /\ Tier(a, b) = "finding" <=>
           /\ SameGroup(a, b) /\ SameSpeaker(a, b) /\ ~SameRepresentation(a, b)
           /\ a.claim.polarity # b.claim.polarity
           /\ a.claim.predicate \in Negations => a.claim.object = b.claim.object
  BY DEF Conflict, Tier, ConflictKind

(* A shift of account is a finding about one object. *)
LEMMA ShiftIff ==
  ASSUME NEW a, NEW b
  PROVE  Shift(a, b) <=>
           /\ Conflict(a, b) /\ Tier(a, b) = "finding"
           /\ a.claim.object = b.claim.object
  <1>1. (\A part \in {"subject", "predicate", "object"} : a.claim[part] = b.claim[part])
          <=> SameGroup(a, b) /\ a.claim.object = b.claim.object
    BY DEF SameGroup
  <1> QED BY <1>1, FindingIff DEF Shift, SameSpeaker, SameRepresentation

LEMMA ContradictionsGrow ==
  ASSUME NEW docs, NEW more, docs \subseteq more
  PROVE  /\ ClaimRefs(docs) \subseteq ClaimRefs(more)
         /\ Contradictions(docs) \subseteq Contradictions(more)
  <1>1. ClaimRefs(docs) \subseteq ClaimRefs(more)
    BY DEF ClaimRefs
  <1> QED BY <1>1 DEF Contradictions

LEMMA ClaimsImplies == ClaimsInv => ShiftsAreFound
  <1> SUFFICES ASSUME ClaimsInv PROVE ShiftsAreFound
    OBVIOUS
  <1> DEFINE found == {r.claims : r \in {x \in Contradictions(fetched) : x.tier = "finding"}}
             shifts == {{p[1], p[2]} : p \in {q \in ClaimRefs(asked) \X ClaimRefs(asked) :
                                                 Shift(q[1], q[2])}}
  <1>1. \A a, b \in ClaimRefs(asked) : Shift(a, b) => {a, b} \in shifts
    <2> SUFFICES ASSUME NEW a \in ClaimRefs(asked), NEW b \in ClaimRefs(asked), Shift(a, b)
                 PROVE  {a, b} \in shifts
      OBVIOUS
    <2> DEFINE p == <<a, b>>
    <2>1. p \in ClaimRefs(asked) \X ClaimRefs(asked) /\ p[1] = a /\ p[2] = b
      OBVIOUS
    <2> HIDE DEF p
    <2> QED BY <2>1
  <1>2. \A pair \in shifts : \E a, b \in ClaimRefs(asked) : pair = {a, b} /\ Shift(a, b)
    OBVIOUS
  <1>3. \A a, b \in ClaimRefs(fetched) :
          Conflict(a, b) /\ Tier(a, b) = "finding" => {a, b} \in found
    <2> SUFFICES ASSUME NEW a \in ClaimRefs(fetched), NEW b \in ClaimRefs(fetched),
                        Conflict(a, b), Tier(a, b) = "finding"
                 PROVE  {a, b} \in found
      OBVIOUS
    <2> DEFINE p == <<a, b>>
               r == [tier |-> "finding", claims |-> {a, b}]
    <2>1. p \in ClaimRefs(fetched) \X ClaimRefs(fetched) /\ p[1] = a /\ p[2] = b
      OBVIOUS
    <2>2. r = [tier |-> Tier(p[1], p[2]), claims |-> {p[1], p[2]}]
      OBVIOUS
    <2>3. r.tier = "finding" /\ r.claims = {a, b}
      OBVIOUS
    <2> HIDE DEF p, r
    <2>4. r \in Contradictions(fetched)
      BY <2>1, <2>2 DEF Contradictions
    <2> QED BY <2>3, <2>4
  <1>4. \A pair \in found : \E a, b \in ClaimRefs(fetched) :
          pair = {a, b} /\ Conflict(a, b) /\ Tier(a, b) = "finding"
    BY DEF Contradictions
  <1> HIDE DEF found, shifts
  <1>5. ClaimRefs(fetched) \subseteq ClaimRefs(asked)
        /\ Contradictions(fetched) \subseteq Contradictions(asked)
    BY ContradictionsGrow DEF ClaimsInv
  <1>6. Complete => shifts \subseteq found
    BY <1>2, <1>3, ShiftIff DEF Complete
  <1>7. ASSUME NEW pair \in found \ shifts, NEW c \in pair, NEW d \in pair, c # d
        PROVE  c.claim.object # d.claim.object /\ c.claim.predicate \notin Negations
    <2>1. PICK a \in ClaimRefs(fetched), b \in ClaimRefs(fetched) :
            pair = {a, b} /\ Conflict(a, b) /\ Tier(a, b) = "finding"
      BY <1>4, <1>7
    <2>2. a.claim.object # b.claim.object
      BY <1>1, <1>5, <1>7, <2>1, ShiftIff
    <2>3. a.claim.predicate \notin Negations /\ a.claim.predicate = b.claim.predicate
      BY <2>1, <2>2, FindingIff DEF SameGroup
    <2> QED BY <1>7, <2>1, <2>2, <2>3
  <1> QED BY <1>5, <1>6, <1>7 DEF ShiftsAreFound, found, shifts

(* A person who asserts and denies the same is found out, in any documents a query
   gets, and a query that is cut at its size invents nothing. *)
THEOREM ShiftsFound == ClaimsSpec => []ShiftsAreFound
  BY ClaimsInvariance, ClaimsImplies, PTL

-----------------------------------------------------------------------------
(* The worklist. *)

LEMMA ImageFinite ==
  ASSUME NEW S, IsFiniteSet(S), NEW f, f = [x \in S |-> f[x]]
  PROVE  IsFiniteSet({f[x] : x \in S})
  <1> DEFINE T == {f[x] : x \in S}
  <1>1. f \in Surjection(S, T)
    BY DEF Surjection
  <1> QED BY <1>1, FS_Surjection

LEMMA RefsFinite ==
  ASSUME NEW docs \in SUBSET Documents
  PROVE  /\ IsFiniteSet(ClaimRefs(docs))
         /\ \A r \in ClaimRefs(docs) : IsFiniteSet(TokensOf(r))
  <1> DEFINE refs == [d \in docs |-> {[doc |-> d.id, path |-> d.path, claim |-> c] : c \in d.claims}]
  <1>1. ASSUME NEW d \in docs PROVE IsFiniteSet(refs[d])
    <2> DEFINE f == [c \in d.claims |-> [doc |-> d.id, path |-> d.path, claim |-> c]]
    <2>1. IsFiniteSet(d.claims)
      BY ClaimsAssumption
    <2>2. refs[d] = {f[c] : c \in d.claims} /\ f = [c \in d.claims |-> f[c]]
      OBVIOUS
    <2> HIDE DEF f, refs
    <2> QED BY <2>1, <2>2, ImageFinite
  <1>2. IsFiniteSet({refs[d] : d \in docs})
    <2>1. IsFiniteSet(docs)
      BY ClaimsAssumption, FS_Subset
    <2>2. refs = [d \in docs |-> refs[d]]
      OBVIOUS
    <2> HIDE DEF refs
    <2> QED BY <2>1, <2>2, ImageFinite
  <1>3. ClaimRefs(docs) = UNION {refs[d] : d \in docs}
    BY DEF ClaimRefs
  <1>4. IsFiniteSet(ClaimRefs(docs))
    <2> DEFINE All == {refs[d] : d \in docs}
    <2>1. \A T \in All : IsFiniteSet(T)
      BY <1>1
    <2> HIDE DEF All
    <2>2. IsFiniteSet(UNION All)
      BY <1>2, <2>1, FS_UNION DEF All
    <2> QED BY <1>3, <2>2 DEF All
  <1>5. ASSUME NEW r \in ClaimRefs(docs) PROVE IsFiniteSet(TokensOf(r))
    <2>1. PICK d \in docs : r.claim \in d.claims
      BY DEF ClaimRefs
    <2>2. IsFiniteSet(Tokens[r.claim.subject]) /\ IsFiniteSet(Tokens[r.claim.object])
      BY <2>1, ClaimsAssumption
    <2> QED BY <2>2, FS_Union DEF TokensOf
  <1> QED BY <1>4, <1>5

(* No two claims are more than similar. *)
LEMMA SimilarityBounded ==
  ASSUME NEW a, NEW b, IsFiniteSet(TokensOf(a)), IsFiniteSet(TokensOf(b))
  PROVE  /\ Similarity(a, b).num \in Nat /\ Similarity(a, b).den \in Nat
         /\ Similarity(a, b).num <= Similarity(a, b).den
  <1> DEFINE both == TokensOf(a) \cap TokensOf(b)
             any == TokensOf(a) \cup TokensOf(b)
  <1>1. IsFiniteSet(any) /\ both \in SUBSET any
    BY FS_Union
  <1> HIDE DEF both, any
  <1>2. IsFiniteSet(both) /\ Cardinality(both) <= Cardinality(any)
    BY <1>1, FS_Subset
  <1>3. Cardinality(both) \in Nat /\ Cardinality(any) \in Nat
    BY <1>1, <1>2, FS_CardinalityType
  <1> QED BY <1>2, <1>3 DEF Similarity, both, any

LEMMA ScoreBounded ==
  ASSUME NEW docs \in SUBSET Documents, NEW pair \in SeamPairs(ClaimRefs(docs))
  PROVE  Score(pair).num \in Nat /\ Score(pair).den \in Nat /\ Score(pair).num <= Score(pair).den
  <1>1. PICK a \in ClaimRefs(docs), b \in ClaimRefs(docs) :
          pair = {a, b} /\ Audience(a.path) # Audience(b.path)
    BY DEF SeamPairs
  <1>2. \E s \in {Similarity(x, y) : x, y \in pair} :
          \E x, y \in pair : x # y /\ s = Similarity(x, y)
    BY <1>1
  <1>3. PICK x \in pair, y \in pair : Score(pair) = Similarity(x, y)
    BY <1>2 DEF Score
  <1>4. IsFiniteSet(TokensOf(x)) /\ IsFiniteSet(TokensOf(y))
    BY <1>1, RefsFinite
  <1> QED BY <1>3, <1>4, SimilarityBounded

(* Two claims in the same words are as similar as can be. *)
LEMMA ScoreOfTheSame ==
  ASSUME NEW a, NEW b, a # b, IsFiniteSet(TokensOf(a)), TokensOf(a) # {},
         TokensOf(a) = TokensOf(b)
  PROVE  \E n \in Nat \ {0} : Score({a, b}) = [num |-> n, den |-> n]
                             /\ Similarity(a, b) = [num |-> n, den |-> n]
  <1> DEFINE n == Cardinality(TokensOf(a))
             s == [num |-> n, den |-> n]
  <1>1. n \in Nat \ {0}
    BY FS_CardinalityType, FS_EmptySet
  <1>2. \A x, y \in {a, b} : Similarity(x, y) = s
    <2>1. \A x, y \in {a, b} : /\ TokensOf(x) \cap TokensOf(y) = TokensOf(a)
                              /\ TokensOf(x) \cup TokensOf(y) = TokensOf(a)
      OBVIOUS
    <2> QED BY <2>1 DEF Similarity
  <1> HIDE DEF s
  <1>3. \E t \in {Similarity(x, y) : x, y \in {a, b}} :
          \E x, y \in {a, b} : x # y /\ t = Similarity(x, y)
    OBVIOUS
  <1>4. Score({a, b}) = s
    BY <1>2, <1>3 DEF Score
  <1> QED BY <1>1, <1>2, <1>4 DEF s

LEMMA PairsFinite ==
  ASSUME NEW docs \in SUBSET Documents PROVE IsFiniteSet(SeamPairs(ClaimRefs(docs)))
  <1>1. SeamPairs(ClaimRefs(docs)) \in SUBSET (SUBSET ClaimRefs(docs))
    BY DEF SeamPairs
  <1>2. IsFiniteSet(SUBSET ClaimRefs(docs))
    BY RefsFinite, FS_SUBSET
  <1> QED BY <1>1, <1>2, FS_Subset

(* A worklist with room for all that are as similar as can be leaves out none of them:
   it would hold no others, and be too short. *)
LEMMA SameLead ==
  ASSUME NEW pairs, IsFiniteSet(pairs), NEW pair \in pairs,
         NEW n \in Nat \ {0}, Score(pair) = [num |-> n, den |-> n],
         \A p \in pairs : /\ Score(p).num \in Nat /\ Score(p).den \in Nat
                         /\ Score(p).num <= Score(p).den,
         Cardinality({p \in pairs : Score(p).num = Score(p).den}) <= MaxPairs,
         NEW W \in Worklists(pairs)
  PROVE  pair \in W
  <1> DEFINE same == {p \in pairs : Score(p).num = Score(p).den}
  <1> SUFFICES ASSUME pair \notin W PROVE FALSE
    OBVIOUS
  <1>1. ASSUME NEW p \in W PROVE p \in same
    <2>1. pair \notin Better(pairs, p) /\ p \in pairs
      BY DEF Worklists
    <2>2. Score(p).num * n >= n * Score(p).den
      BY <2>1 DEF Better, AtLeast
    <2>3. /\ Score(p).num \in Nat /\ Score(p).den \in Nat
          /\ Score(p).num <= Score(p).den
      BY <2>1
    <2> DEFINE x == Score(p).num
               y == Score(p).den
    <2>4. x = y
      <3>1. x \in Nat /\ y \in Nat /\ x <= y /\ x * n >= n * y
        BY <2>2, <2>3
      <3> HIDE DEF x, y
      <3>2. SUFFICES ASSUME x < y PROVE FALSE
        BY <3>1
      <3>3. n * x < n * y /\ x * n = n * x
        BY <3>1, <3>2
      <3> QED BY <3>1, <3>3
    <2> QED BY <2>1, <2>4
  <1>2. pair \in same
    OBVIOUS
  <1>3. /\ IsFiniteSet(same) /\ Cardinality(same) <= Cardinality(pairs)
        /\ Cardinality(same) \in Nat /\ Cardinality(pairs) \in Nat
    <2>1. same \in SUBSET pairs
      OBVIOUS
    <2> HIDE DEF same
    <2>2. IsFiniteSet(same) /\ Cardinality(same) <= Cardinality(pairs)
      BY <2>1, FS_Subset
    <2> QED BY <2>2, FS_CardinalityType
  <1>4. Cardinality(same) <= MaxPairs
    OBVIOUS
  <1> HIDE DEF same
  <1> DEFINE others == same \ {pair}
  <1>5. IsFiniteSet(others) /\ Cardinality(others) = Cardinality(same) - 1
    BY <1>2, <1>3, FS_RemoveElement
  <1>6. W \in SUBSET others
    BY <1>1
  <1> HIDE DEF others
  <1>7. Cardinality(W) <= Cardinality(others) /\ Cardinality(W) \in Nat
    BY <1>5, <1>6, FS_Subset, FS_CardinalityType
  <1>8. Cardinality(W) = IF Cardinality(pairs) <= MaxPairs THEN Cardinality(pairs) ELSE MaxPairs
    BY DEF Worklists
  <1> QED BY <1>3, <1>4, <1>5, <1>7, <1>8, ClaimsAssumption

LEMMA LeadImplies == ClaimsInv => FindingsLeadTheWorklist
  <1> DEFINE pairs == SeamPairs(ClaimRefs(fetched))
             same == {p \in pairs : Score(p).num = Score(p).den}
  <1> SUFFICES ASSUME ClaimsInv, NEW r \in Contradictions(fetched), r.tier = "finding",
                      \A a, b \in r.claims : a # b =>
                        /\ a.claim.object = b.claim.object /\ TokensOf(a) # {}
                        /\ {Audience(a.path), Audience(b.path)} \cap {NoOne} = {}
                        /\ Audience(a.path) # Audience(b.path)
               PROVE  /\ r.claims \in same
                      /\ Cardinality(same) <= MaxPairs =>
                           \A W \in Worklists(pairs) : r.claims \in W
    BY DEF FindingsLeadTheWorklist
  <1>1. PICK a \in ClaimRefs(fetched), b \in ClaimRefs(fetched) :
          r.claims = {a, b} /\ Conflict(a, b) /\ Tier(a, b) = "finding"
    BY DEF Contradictions
  <1>2. SameGroup(a, b) /\ SameSpeaker(a, b) /\ ~SameRepresentation(a, b)
    BY <1>1, FindingIff
  <1>3. a # b
    BY <1>2 DEF SameRepresentation
  <1>4. /\ a.claim.object = b.claim.object /\ TokensOf(a) # {}
        /\ Audience(a.path) # NoOne /\ Audience(b.path) # NoOne
        /\ Audience(a.path) # Audience(b.path)
    BY <1>1, <1>3
  <1>5. TokensOf(a) = TokensOf(b)
    BY <1>2, <1>4 DEF TokensOf, SameGroup
  <1>6. fetched \in SUBSET Documents /\ IsFiniteSet(TokensOf(a))
    BY RefsFinite DEF ClaimsInv
  <1>7. PICK n \in Nat \ {0} : /\ Score({a, b}) = [num |-> n, den |-> n]
                              /\ Similarity(a, b) = [num |-> n, den |-> n]
    BY <1>3, <1>4, <1>5, <1>6, ScoreOfTheSame
  <1>8. r.claims \in pairs
    <2> DEFINE seam == {x \in ClaimRefs(fetched) :
                          Audience(x.path) # NoOne /\ x.claim.speaker # NoOne}
               Across(x, y) == /\ Person(x.claim.speaker) = Person(y.claim.speaker)
                               /\ Audience(x.path) # Audience(y.path)
                               /\ Similarity(x, y).den # 0
                               /\ AtLeast(Similarity(x, y), MinSimilarity)
               p == <<a, b>>
    <2>1. Across(a, b)
      <3>1. AtLeast(Similarity(a, b), MinSimilarity)
        BY <1>7 DEF AtLeast, MinSimilarity
      <3> QED BY <1>2, <1>4, <1>7, <3>1 DEF SameSpeaker
    <2>2. a \in seam /\ b \in seam
      BY <1>2, <1>4 DEF SameSpeaker
    <2>3. p[1] = a /\ p[2] = b /\ p \in seam \X seam
      BY <2>2
    <2>4. pairs = {{q[1], q[2]} : q \in {x \in seam \X seam : Across(x[1], x[2])}}
      BY DEF SeamPairs
    <2> HIDE DEF Across, seam, p, pairs
    <2> QED BY <1>1, <2>1, <2>3, <2>4
  <1>9. r.claims \in same
    BY <1>1, <1>7, <1>8
  <1>10. ASSUME Cardinality(same) <= MaxPairs, NEW W \in Worklists(pairs)
         PROVE  r.claims \in W
    <2>1. IsFiniteSet(pairs)
      BY <1>6, PairsFinite
    <2>2. \A p \in pairs : /\ Score(p).num \in Nat /\ Score(p).den \in Nat
                          /\ Score(p).num <= Score(p).den
      BY <1>6, ScoreBounded
    <2>3. Score(r.claims) = [num |-> n, den |-> n]
      BY <1>1, <1>7
    <2> HIDE DEF pairs
    <2> QED BY <1>8, <1>10, <2>1, <2>2, <2>3, SameLead
  <1> QED BY <1>9, <1>10

(* What one detector finds heads the worklist of the other, as long as there is room for
   all that are as similar. *)
THEOREM LeadsTheWorklist == ClaimsSpec => []FindingsLeadTheWorklist
  BY ClaimsInvariance, LeadImplies, PTL

=============================================================================
