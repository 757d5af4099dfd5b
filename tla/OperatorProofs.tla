---------------------------- MODULE OperatorProofs ----------------------------
(***************************************************************************)
(* Proofs about what an operator relies on: a green board of doctor is     *)
(* true, the all clear of alert too, and neither is red for nothing; a     *)
(* conversion ends in time; a run of re-enrich takes up the edits of the   *)
(* notes, the index can be made again from the mirror, and without notes   *)
(* a text has one document.                                                *)
(***************************************************************************)
EXTENDS Doctor, Alerting, Docling, DerivedStore, SequenceTheorems, TLAPS

(* Doctor, for any number of changes of what the probes look at. *)

(* What a probe has seen when it answers UP, and what the probe of Elasticsearch has
   seen by the time it counts an index. *)
Earned(p) ==
    IF p = "elasticsearch" THEN {"cluster", "documents", "events"}
    ELSE IF p = "live_index_watcher" THEN {"fresh"} ELSE {p}

Answers == Statuses \cup {"running", "raised"} \cup RequiredIndices

DoctorTypeOK ==
    /\ up \in SUBSET Sights
    /\ answer \in [Probes -> Answers]
    /\ wasUp \in SUBSET Sights

(* Why the board is true: what is up now was up in the run, every answer UP has been
   earned in the run, and a finished board is that of the answers. *)
AnswersEarned ==
    /\ up \subseteq wasUp
    /\ \A p \in Probes : answer[p] = "UP" => Earned(p) \subseteq wasUp
    /\ answer["elasticsearch"] \in RequiredIndices => "cluster" \in wasUp
    /\ answer["elasticsearch"] = "events" => "documents" \in wasUp
    /\ answer["enricher"] = "UP" => HasKey
    /\ board # <<>> => board = Board(answer)

DoctorInv == DoctorTypeOK /\ AnswersEarned

LEMMA DoctorInitial == DoctorInit => DoctorInv
  BY DEF DoctorInit, DoctorInv, DoctorTypeOK, AnswersEarned, NoAnswer, Answers,
         Probes, Statuses, RequiredIndices

(* An answer changes nothing but itself, and has to be earned. *)
LEMMA ReturnsKeep ==
  ASSUME DoctorInv, NEW p \in Probes, NEW status \in Answers, Returns(p, status),
         status = "UP" => Earned(p) \subseteq wasUp,
         p = "elasticsearch" /\ status \in RequiredIndices => "cluster" \in wasUp,
         p = "elasticsearch" /\ status = "events" => "documents" \in wasUp,
         p = "enricher" /\ status = "UP" => HasKey
  PROVE  DoctorInv'
  <1>1. /\ up' = up /\ wasUp' = wasUp /\ board' = board /\ board = <<>>
        /\ answer' = [answer EXCEPT ![p] = status]
    BY DEF Returns
  <1>2. DoctorTypeOK'
    BY <1>1 DEF DoctorInv, DoctorTypeOK
  <1>3. \A q \in Probes : answer'[q] = IF q = p THEN status ELSE answer[q]
    BY <1>1 DEF DoctorInv, DoctorTypeOK
  <1>4. "elasticsearch" \in Probes /\ "enricher" \in Probes
    BY DEF Probes
  <1>5. AnswersEarned'
    BY <1>1, <1>3, <1>4 DEF DoctorInv, AnswersEarned
  <1> QED BY <1>2, <1>5 DEF DoctorInv

LEMMA DoctorStep == DoctorInv /\ [DoctorNext]_doctorVars => DoctorInv'
  <1> SUFFICES ASSUME DoctorInv, [DoctorNext]_doctorVars PROVE DoctorInv'
    OBVIOUS
  <1>1. CASE Flip
    <2>1. /\ up' \in SUBSET Sights /\ wasUp' = wasUp \cup up'
          /\ answer' = answer /\ board' = board
      BY <1>1 DEF Flip, DoctorInv, DoctorTypeOK
    <2>2. DoctorTypeOK'
      BY <2>1 DEF DoctorInv, DoctorTypeOK
    <2>3. AnswersEarned'
      BY <2>1 DEF DoctorInv, AnswersEarned, Board
    <2> QED BY <2>2, <2>3 DEF DoctorInv
  <1>2. CASE AskCluster
    <2> DEFINE status == IF "cluster" \in up THEN "documents" ELSE "DOWN"
    <2>1. Returns("elasticsearch", status)
      BY <1>2 DEF AskCluster
    <2>2. status \in Answers /\ status # "UP" /\ status # "events"
      BY DEF Answers, Statuses, RequiredIndices
    <2>3. status \in RequiredIndices => "cluster" \in wasUp
      BY DEF DoctorInv, AnswersEarned, RequiredIndices
    <2>4. "elasticsearch" \in Probes
      BY DEF Probes
    <2> HIDE DEF status
    <2> QED BY <2>1, <2>2, <2>3, <2>4, ReturnsKeep
  <1>3. CASE CountIndex
    <2>1. PICK index \in RequiredIndices :
            /\ answer["elasticsearch"] = index
            /\ Returns("elasticsearch",
                       IF ~Readable(index) THEN "DEGRADED"
                       ELSE IF index = "documents" THEN "events" ELSE "UP")
      BY <1>3 DEF CountIndex
    <2> DEFINE status == IF ~Readable(index) THEN "DEGRADED"
                         ELSE IF index = "documents" THEN "events" ELSE "UP"
    <2>2. status \in Answers
      BY DEF Answers, Statuses, RequiredIndices
    <2>3. "cluster" \in wasUp /\ (index = "events" => "documents" \in wasUp)
      BY <2>1 DEF DoctorInv, AnswersEarned
    <2>4. Readable(index) => index \in wasUp
      BY DEF Readable, DoctorInv, AnswersEarned
    <2>5. index = "documents" \/ index = "events"
      BY DEF RequiredIndices
    <2>6. status = "UP" => Earned("elasticsearch") \subseteq wasUp
      BY <2>3, <2>4, <2>5 DEF Earned
    <2>7. status = "events" => "documents" \in wasUp
      BY <2>4
    <2>8. "elasticsearch" \in Probes /\ Returns("elasticsearch", status)
      BY <2>1 DEF Probes
    <2> HIDE DEF status
    <2> QED BY <2>2, <2>3, <2>6, <2>7, <2>8, ReturnsKeep
  <1>4. CASE ProbeService
    <2>1. PICK p \in {"docling", "enricher", "mcp_server"} : Returns(p, ServiceSeen(p))
      BY <1>4 DEF ProbeService
    <2>2. ServiceSeen(p) \in Answers
      BY DEF ServiceSeen, UpIf, Answers, Statuses
    <2>3. ServiceSeen(p) = "UP" => Earned(p) \subseteq wasUp
      BY DEF ServiceSeen, UpIf, Earned, DoctorInv, AnswersEarned
    <2>4. p = "enricher" /\ ServiceSeen(p) = "UP" => HasKey
      BY DEF ServiceSeen
    <2>5. p \in Probes /\ p # "elasticsearch"
      BY DEF Probes
    <2> QED BY <2>1, <2>2, <2>3, <2>4, <2>5, ReturnsKeep
  <1>5. CASE ProbeWatcher
    <2>1. Returns("live_index_watcher", WatcherSeen)
      BY <1>5 DEF ProbeWatcher
    <2>2. WatcherSeen \in Answers
      BY DEF WatcherSeen, UpIf, Answers, Statuses
    <2>3. WatcherSeen = "UP" => Earned("live_index_watcher") \subseteq wasUp
      BY DEF WatcherSeen, UpIf, Earned, DoctorInv, AnswersEarned
    <2>4. "live_index_watcher" \in Probes
      BY DEF Probes
    <2> QED BY <2>1, <2>2, <2>3, <2>4, ReturnsKeep
  <1>6. CASE NoClient
    <2>1. PICK p \in {"elasticsearch", "live_index_watcher"} : Returns(p, "raised")
      BY <1>6 DEF NoClient
    <2>2. p \in Probes /\ "raised" \in Answers /\ "raised" \notin RequiredIndices
      BY DEF Probes, Answers, RequiredIndices
    <2> QED BY <2>1, <2>2, ReturnsKeep DEF RequiredIndices
  <1>7. CASE Assemble
    BY <1>7 DEF Assemble, DoctorInv, DoctorTypeOK, AnswersEarned, Board
  <1>8. CASE DoctorAgain
    <2>1. /\ up' = up /\ wasUp' = up /\ board' = <<>> /\ answer' = NoAnswer
      BY <1>8 DEF DoctorAgain
    <2>2. DoctorTypeOK'
      BY <2>1 DEF DoctorInv, DoctorTypeOK, NoAnswer, Answers
    <2>3. AnswersEarned'
      BY <2>1 DEF AnswersEarned, NoAnswer, Probes, RequiredIndices
    <2> QED BY <2>2, <2>3 DEF DoctorInv
  <1>9. CASE UNCHANGED doctorVars
    BY <1>9 DEF doctorVars, DoctorInv, DoctorTypeOK, AnswersEarned, Board
  <1> QED BY <1>1, <1>2, <1>3, <1>4, <1>5, <1>6, <1>7, <1>8, <1>9 DEF DoctorNext

LEMMA DoctorImplies == DoctorInv => GreenBoardIsTrue
  <1> SUFFICES ASSUME DoctorInv, board # <<>>, DoctorExit = 0
               PROVE  HasKey /\ Sights \subseteq wasUp
    BY DEF GreenBoardIsTrue
  <1>1. board = Board(answer)
    BY DEF DoctorInv, AnswersEarned
  <1>2. \A p \in Probes : board[p] = "UP"
    <2>1. DOMAIN board = Probes /\ \A p \in Probes : board[p] \in Statuses
      BY <1>1 DEF Board, Statuses
    <2>2. Overall(board) = "UP"
      BY DEF DoctorExit
    <2>3. \A p \in Probes : board[p] # "DOWN" /\ board[p] # "DEGRADED"
      BY <2>1, <2>2 DEF Overall
    <2> QED BY <2>1, <2>3 DEF Statuses
  <1>3. \A p \in Probes : answer[p] = "UP"
    BY <1>1, <1>2 DEF Board
  <1>4. \A p \in Probes : Earned(p) \subseteq wasUp
    BY <1>3 DEF DoctorInv, AnswersEarned
  <1>5. HasKey
    BY <1>3 DEF DoctorInv, AnswersEarned, Probes
  <1>6. Sights \subseteq wasUp
    <2>1. {"elasticsearch", "docling", "enricher", "mcp_server", "live_index_watcher"} \subseteq Probes
      BY DEF Probes
    <2>2. {"cluster", "documents", "events"} \subseteq wasUp /\ "fresh" \in wasUp
      BY <1>4, <2>1 DEF Earned
    <2>3. "docling" \in wasUp /\ "enricher" \in wasUp /\ "mcp_server" \in wasUp
      BY <1>4, <2>1 DEF Earned
    <2> QED BY <2>2, <2>3 DEF Sights, RequiredIndices
  <1> QED BY <1>5, <1>6

(* The exit code 0 of doctor is never wrong about anything it looks at. *)
THEOREM GreenBoardSafety == DoctorSpec => []GreenBoardIsTrue
  <1>1. DoctorSpec => []DoctorInv
    BY DoctorInitial, DoctorStep, PTL DEF DoctorSpec
  <1> QED BY <1>1, DoctorImplies, PTL

(* The other direction: while all is well, no probe that answers says anything else. *)
AllIsWell == up = Sights
AnswersUp == \A p \in Probes : answer[p] \in Statuses => answer[p] = "UP"
SoundBoardIsGreen ==
    board # <<>> /\ (\A p \in Probes : answer[p] \in Statuses) => DoctorExit = 0

LEMMA ReturnsUp ==
  ASSUME DoctorInv, AnswersUp, NEW p \in Probes, NEW status, Returns(p, status),
         status \in Statuses => status = "UP"
  PROVE  AnswersUp'
  <1>1. \A q \in Probes : answer'[q] = IF q = p THEN status ELSE answer[q]
    BY DEF Returns, DoctorInv, DoctorTypeOK
  <1> QED BY <1>1 DEF AnswersUp

LEMMA AnswersUpKept ==
  ASSUME HasKey, DoctorInv, AnswersUp, AllIsWell, [DoctorNext]_doctorVars
  PROVE  AnswersUp'
  <1>1. \A index \in RequiredIndices : Readable(index)
    BY DEF AllIsWell, Readable, Sights
  <1>2. \A p \in {"docling", "enricher", "mcp_server"} : p \in Probes /\ ServiceSeen(p) = "UP"
    BY DEF AllIsWell, ServiceSeen, UpIf, Sights, Probes
  <1>3. /\ WatcherSeen = "UP" /\ "cluster" \in up
        /\ "live_index_watcher" \in Probes /\ "elasticsearch" \in Probes
    BY <1>1 DEF AllIsWell, WatcherSeen, UpIf, Sights, Probes, RequiredIndices
  <1>4. CASE AskCluster
    BY <1>3, <1>4, ReturnsUp DEF AskCluster, Statuses
  <1>5. CASE CountIndex
    <2>1. PICK index \in RequiredIndices :
            Returns("elasticsearch", IF ~Readable(index) THEN "DEGRADED"
                                     ELSE IF index = "documents" THEN "events" ELSE "UP")
      BY <1>5 DEF CountIndex
    <2>2. Returns("elasticsearch", IF index = "documents" THEN "events" ELSE "UP")
      BY <1>1, <2>1
    <2> QED BY <1>3, <2>2, ReturnsUp DEF Statuses
  <1>6. CASE ProbeService
    BY <1>2, <1>6, ReturnsUp DEF ProbeService
  <1>7. CASE ProbeWatcher
    BY <1>3, <1>7, ReturnsUp DEF ProbeWatcher
  <1>8. CASE NoClient
    BY <1>3, <1>8, ReturnsUp DEF NoClient, Statuses
  <1>9. CASE DoctorAgain
    BY <1>9 DEF DoctorAgain, AnswersUp, NoAnswer, Statuses
  <1>10. CASE Flip \/ Assemble \/ UNCHANGED doctorVars
    BY <1>10 DEF Flip, Assemble, doctorVars, AnswersUp
  <1> QED BY <1>4, <1>5, <1>6, <1>7, <1>8, <1>9, <1>10 DEF DoctorNext

(* As long as all is well, a board that every probe is on in time is green: what makes
   doctor exit 1 on a sound system is a probe that hangs or raises, and nothing else. *)
THEOREM SoundBoardSafety ==
  ASSUME HasKey PROVE DoctorSpec /\ []AllIsWell => []SoundBoardIsGreen
  <1>1. DoctorInit => AnswersUp
    BY DEF DoctorInit, AnswersUp, NoAnswer, Statuses
  <1>2. DoctorInv /\ AnswersUp /\ AllIsWell /\ [DoctorNext]_doctorVars => AnswersUp'
    BY AnswersUpKept
  <1>3. DoctorInv /\ AnswersUp => SoundBoardIsGreen
    <2> SUFFICES ASSUME DoctorInv, AnswersUp, board # <<>>,
                        \A p \in Probes : answer[p] \in Statuses
                 PROVE  DoctorExit = 0
      BY DEF SoundBoardIsGreen
    <2>1. board = Board(answer)
      BY DEF DoctorInv, AnswersEarned
    <2>2. DOMAIN board = Probes /\ \A p \in Probes : board[p] = "UP"
      BY <2>1 DEF Board, AnswersUp
    <2> QED BY <2>2 DEF DoctorExit, Overall
  <1>4. DoctorSpec => []DoctorInv
    BY DoctorInitial, DoctorStep, PTL DEF DoctorSpec
  <1> QED BY <1>1, <1>2, <1>3, <1>4, PTL DEF DoctorSpec

-----------------------------------------------------------------------------
(* Alerting, for any facts and allowance. *)

FactsKnown ==
    [docs : Nat, events : Nat, failed : Nat, recent : Nat,
     skipped : BOOLEAN, incident : BOOLEAN, missing : BOOLEAN]

(* A query that has not been sent has not failed. *)
AlertInv ==
    /\ facts \in FactsKnown
    /\ sent \in 0..5
    /\ failing \subseteq 1..sent

LEMMA AlertInvariance == AlertSpec => []AlertInv
  <1>1. AlertInit => AlertInv
    BY AlertingAssumption DEF AlertInit, AlertInv, FactsKnown
  <1>2. AlertInv /\ [AlertNext]_alertVars => AlertInv'
    <2> SUFFICES ASSUME AlertInv, [AlertNext]_alertVars PROVE AlertInv'
      OBVIOUS
    <2>1. CASE Query
      <3>1. Len(Queries) = 5
        BY DEF Queries
      <3>2. sent' = sent + 1 /\ sent' \in 1..5
        BY <2>1, <3>1 DEF Query, AlertInv
      <3>3. failing' \subseteq failing \cup {sent'} /\ facts' = facts
        BY <2>1 DEF Query
      <3>4. \A i \in 1..sent \cup {sent'} : i \in 1..sent'
        BY <3>2 DEF AlertInv
      <3> QED BY <3>2, <3>3, <3>4 DEF AlertInv
    <2>2. CASE UNCHANGED alertVars
      BY <2>2 DEF alertVars, AlertInv
    <2> QED BY <2>1, <2>2 DEF AlertNext
  <1> QED BY <1>1, <1>2, PTL DEF AlertSpec

(* When all have been sent, an answer was had of all that did not fail. *)
LEMMA AlertImplies == AlertInv => AllClearIsTrue
  <1> SUFFICES ASSUME AlertInv, sent = Len(Queries), AlertExit = 0
               PROVE  /\ facts.docs > 0 /\ facts.events > 0 /\ facts.failed <= MaxFailures
                      /\ Manifested => ~facts.missing
                      /\ facts.incident => ~Answered("exposures")
                      /\ facts.recent > 0 => ~Answered("recent")
                      /\ OnSkipped => ~facts.skipped
    BY DEF AllClearIsTrue
  <1>1. ~Crashed /\ ~Critical /\ ~Warning
    BY DEF AlertExit
  <1>2. Healthy
    BY <1>1 DEF Warning
  <1>3. /\ facts.docs \in Nat /\ facts.events \in Nat /\ facts.failed \in Nat
        /\ facts.recent \in Nat /\ facts.missing \in BOOLEAN /\ facts.incident \in BOOLEAN
    BY DEF AlertInv, FactsKnown
  <1>4. Answered("stages") /\ facts.events > 0 /\ Docs > 0 /\ Recent = 0 /\ ~Incident
    BY <1>2 DEF Healthy
  <1>5. facts.docs > 0
    BY <1>4, <1>3 DEF Docs
  <1>6. facts.failed <= MaxFailures
    BY <1>1, <1>3, <1>4, AlertingAssumption DEF Critical, Failed
  <1>7. Manifested => ~facts.missing
    BY <1>1 DEF Critical
  <1>8. facts.incident => ~Answered("exposures")
    BY <1>4 DEF Incident
  <1>9. facts.recent > 0 => ~Answered("recent")
    BY <1>3, <1>4 DEF Recent
  <1>10. OnSkipped => ~facts.skipped
    BY <1>1, <1>4 DEF Warning
  <1> QED BY <1>4, <1>5, <1>6, <1>7, <1>8, <1>9, <1>10

(* The exit code 0 of alert is true, but for what the two unguarded queries tell. *)
THEOREM AllClearSafety == AlertSpec => []AllClearIsTrue
  BY AlertInvariance, AlertImplies, PTL

(* The other direction.  A query that raises never makes an alert critical; and when none
   has raised, the exit code is 0 whenever there is nothing to tell. *)
AlarmsAreTrue ==
    sent = Len(Queries) =>
        /\ AlertExit = 2 => facts.failed > MaxFailures \/ (Manifested /\ facts.missing)
        /\ /\ failing = {}
           /\ facts.docs > 0 /\ facts.events > 0 /\ facts.recent = 0 /\ ~facts.incident
           /\ facts.failed <= MaxFailures /\ (Manifested => ~facts.missing)
           /\ OnSkipped => ~facts.skipped
           => AlertExit = 0

LEMMA AlarmsImplied == AlertInv => AlarmsAreTrue
  <1> SUFFICES ASSUME AlertInv, sent = Len(Queries)
               PROVE  AlarmsAreTrue
    BY DEF AlarmsAreTrue
  <1>1. ASSUME AlertExit = 2 PROVE facts.failed > MaxFailures \/ (Manifested /\ facts.missing)
    <2>1. Critical
      BY <1>1 DEF AlertExit
    <2> QED BY <2>1, AlertingAssumption DEF Critical, Failed
  <1>2. ASSUME failing = {},
               facts.docs > 0, facts.events > 0, facts.recent = 0, ~facts.incident,
               facts.failed <= MaxFailures, Manifested => ~facts.missing,
               OnSkipped => ~facts.skipped
        PROVE  AlertExit = 0
    <2>1. Answered("docs") /\ Answered("stages")
      <3>1. /\ Queries[1] = "docs" /\ Queries[2] = "stages" /\ Len(Queries) = 5
        BY DEF Queries
      <3>2. 1 \in 1..sent /\ 2 \in 1..sent
        BY <3>1
      <3> QED BY <1>2, <3>1, <3>2 DEF Answered
    <2>2. ~Crashed
      BY <1>2 DEF Crashed
    <2>3. Docs > 0 /\ Recent = 0 /\ ~Incident /\ Healthy
      BY <1>2, <2>1 DEF Docs, Recent, Incident, Healthy
    <2>4. ~Critical
      BY <1>2, <2>1, AlertingAssumption DEF Critical, Failed, AlertInv, FactsKnown
    <2>5. ~Warning
      BY <1>2, <2>3 DEF Warning
    <2> QED BY <2>2, <2>4, <2>5 DEF AlertExit
  <1> QED BY <1>1, <1>2 DEF AlarmsAreTrue

(* alert does not cry wolf: its exit code 2 is about failures or documents that are
   missing, never about an outage, and a sound archive with every query answered exits 0. *)
THEOREM AlarmTruth == AlertSpec => []AlarmsAreTrue
  BY AlertInvariance, AlarmsImplied, PTL

-----------------------------------------------------------------------------
(* Docling, for any deadline, interval and timeout. *)

(* What one round of the loop may take, the rounds that fit before the deadline, and
   what k of them may take. *)
Round == PollInterval + RequestTimeout
Polls == MaxWait \div PollInterval + 1
Rounds(k) == k * Round

(* Before the deadline another round fits. *)
LEMMA RoundsFit ==
  ASSUME NEW k \in Nat, k * PollInterval <= MaxWait
  PROVE  k + 1 <= Polls
  <1> DEFINE d == MaxWait \div PollInterval
  <1>1. d \in Nat /\ MaxWait < (d + 1) * PollInterval
    BY DoclingAssumption
  <1> HIDE DEF d
  <1>2. SUFFICES ASSUME k >= d + 1 PROVE FALSE
    BY <1>1 DEF Polls, d
  <1>3. k * PollInterval >= (d + 1) * PollInterval
    BY <1>1, <1>2, DoclingAssumption
  <1>4. /\ k * PollInterval \in Nat /\ (d + 1) * PollInterval \in Nat
        /\ MaxWait \in Nat
    BY <1>1, DoclingAssumption
  <1> QED BY <1>1, <1>3, <1>4

LEMMA RoundsGrow ==
  /\ Round \in Nat /\ Polls \in Nat /\ 1 <= Polls
  /\ Rounds(0) = 0
  /\ \A k \in Nat : Rounds(k) \in Nat /\ Rounds(k + 1) = Rounds(k) + Round
  /\ \A k, l \in Nat : k <= l => Rounds(k) <= Rounds(l)
  <1>1. Round \in Nat /\ Polls \in Nat /\ 1 <= Polls
    BY DoclingAssumption DEF Round, Polls
  <1> DEFINE R == Round
  <1>2. R \in Nat
    BY <1>1
  <1> HIDE DEF R
  <1>3. \A k \in Nat : k * R \in Nat /\ (k + 1) * R = k * R + R
    BY <1>2
  <1>4. \A k, l \in Nat : k <= l => k * R <= l * R
    BY <1>2
  <1>5. 0 * R = 0
    BY <1>2
  <1> QED BY <1>1, <1>3, <1>4, <1>5 DEF Rounds, R

(* The two calls that no sleep follows. *)
Calls == 2 * RequestTimeout

(* What has passed after k sleeps, at each place of the loop. *)
SpentAt(k) ==
    /\ at = "submit" => elapsed = 0 /\ k = 0
    /\ at = "poll" => k <= Polls /\ elapsed <= Rounds(k) + RequestTimeout
    /\ at \in {"sleep", "result"} => k + 1 <= Polls /\ elapsed <= Rounds(k) + Calls
    /\ at \in {"text", "no_text", "error", "timed_out"} => elapsed <= Rounds(Polls) + Calls

TimeAt(k) == waited = k * PollInterval /\ SpentAt(k)

Done == {"success", "empty"}

DoclingTypeOK ==
    /\ task \in {"none", "running", "failure", "lost"} \cup Done
    /\ at \in {"submit", "poll", "sleep", "result", "text", "no_text", "error", "timed_out"}
    /\ waited \in Nat /\ elapsed \in Nat /\ ready \in Nat

(* A conversion that is done is seen one interval later at most. *)
SeenSoon ==
    /\ at = "submit" => task = "none"
    /\ task \notin Done => ready = Never
    /\ at = "poll" /\ task \in Done => waited <= ready + PollInterval
    /\ at = "sleep" /\ task \in Done => ready = waited
    /\ at = "timed_out" => ready + PollInterval > MaxWait

DoclingInv == DoclingTypeOK /\ SeenSoon /\ \E k \in Nat : TimeAt(k)

LEMMA DoclingInitial == DoclingInit => DoclingInv
  <1> SUFFICES ASSUME DoclingInit PROVE DoclingInv
    OBVIOUS
  <1>1. TimeAt(0)
    <2>1. waited = 0 * PollInterval
      BY DoclingAssumption DEF DoclingInit
    <2> QED BY <2>1 DEF DoclingInit, TimeAt, SpentAt
  <1>2. DoclingTypeOK /\ SeenSoon
    BY DoclingAssumption DEF DoclingInit, DoclingTypeOK, SeenSoon, Done, Never
  <1> QED BY <1>1, <1>2 DEF DoclingInv

LEMMA DoclingStep == DoclingInv /\ [DoclingNext]_doclingVars => DoclingInv'
  <1> SUFFICES ASSUME DoclingInv, [DoclingNext]_doclingVars PROVE DoclingInv'
    OBVIOUS
  <1>1. PICK k \in Nat : TimeAt(k)
    BY DEF DoclingInv
  <1>2. /\ Rounds(k) \in Nat /\ Rounds(k + 1) = Rounds(k) + Round /\ Rounds(0) = 0
        /\ Round = PollInterval + RequestTimeout /\ Rounds(Polls) \in Nat
        /\ PollInterval \in Nat \ {0} /\ RequestTimeout \in Nat
        /\ Polls \in Nat /\ 1 <= Polls /\ Calls = RequestTimeout + RequestTimeout
    <2>1. Round = PollInterval + RequestTimeout
      BY DEF Round
    <2>2. Calls = RequestTimeout + RequestTimeout
      BY DoclingAssumption DEF Calls
    <2> QED BY <2>1, <2>2, RoundsGrow, DoclingAssumption
  <1>3. /\ k <= Polls => Rounds(k) <= Rounds(Polls)
        /\ k + 1 <= Polls => Rounds(k) + Round <= Rounds(Polls)
    <2>1. k + 1 \in Nat
      OBVIOUS
    <2> QED BY <1>2, <2>1, RoundsGrow
  <1>4. DoclingTypeOK /\ SeenSoon
    BY DEF DoclingInv
  <1>5. waited = k * PollInterval /\ SpentAt(k)
    BY <1>1 DEF TimeAt
  <1>6. /\ task \in {"none", "running", "failure", "lost"} \cup Done
        /\ waited \in Nat /\ elapsed \in Nat /\ ready \in Nat
    BY <1>4 DEF DoclingTypeOK
  <1>7. /\ PollInterval \in Nat /\ RequestTimeout \in Nat /\ MaxWait \in Nat
    BY DoclingAssumption
  <1>8. CASE Submit
    <2>1. PICK t \in 0..RequestTimeout : elapsed' = elapsed + t
      BY <1>8 DEF Submit, Call
    <2>2. /\ at = "submit" /\ at' \in {"poll", "error"} /\ waited' = waited /\ ready' = ready
          /\ task' = IF at' = "poll" THEN "running" ELSE task
      BY <1>8 DEF Submit, Call
    <2>3. TimeAt(k)'
      <3>1. SpentAt(k)'
        BY <1>5, <1>2, <1>3, <1>6, <2>1, <2>2 DEF SpentAt
      <3>2. waited' = k * PollInterval
        BY <1>5, <2>2
      <3> QED BY <3>1, <3>2 DEF TimeAt
    <2>4. DoclingTypeOK' /\ SeenSoon'
      BY <1>7, <1>4, <2>1, <2>2 DEF DoclingTypeOK, SeenSoon, Done, Never
    <2> QED BY <2>3, <2>4 DEF DoclingInv
  <1>9. CASE Poll
    <2>1. PICK t \in 0..RequestTimeout : elapsed' = elapsed + t
      BY <1>9 DEF Poll, Call
    <2>2. /\ at = "poll" /\ waited' = waited /\ ready' = ready /\ task' = task
          /\ at' \in {"error", "result", "sleep"}
          /\ at' = "sleep" => task = "running"
      BY <1>9 DEF Poll, Call
    <2>3. k + 1 <= Polls
      <3>1. waited = k * PollInterval /\ waited <= MaxWait
        BY <1>1, <1>9 DEF TimeAt, Poll
      <3> QED BY <3>1, RoundsFit
    <2>4. TimeAt(k)'
      <3>1. SpentAt(k)'
        BY <1>5, <1>2, <1>3, <1>6, <2>1, <2>2, <2>3 DEF SpentAt
      <3>2. waited' = k * PollInterval
        BY <1>5, <2>2
      <3> QED BY <3>1, <3>2 DEF TimeAt
    <2>5. DoclingTypeOK' /\ SeenSoon'
      BY <1>7, <1>4, <2>1, <2>2 DEF DoclingTypeOK, SeenSoon, Done, Never
    <2> QED BY <2>4, <2>5 DEF DoclingInv
  <1>10. CASE SleepOneInterval
    <2>1. /\ at = "sleep" /\ at' = "poll" /\ waited' = waited + PollInterval
          /\ elapsed' = elapsed + PollInterval /\ task' = task /\ ready' = ready
      BY <1>10 DEF SleepOneInterval
    <2>2. waited' = (k + 1) * PollInterval
      BY <1>1, <1>2, <2>1 DEF TimeAt
    <2>3. TimeAt(k + 1)'
      <3>1. SpentAt(k + 1)'
        BY <1>5, <1>2, <1>6, <2>1 DEF SpentAt
      <3> QED BY <2>2, <3>1 DEF TimeAt
    <2>4. DoclingTypeOK' /\ SeenSoon'
      BY <1>7, <1>4, <2>1 DEF DoclingTypeOK, SeenSoon, Done, Never
    <2> QED BY <2>3, <2>4 DEF DoclingInv
  <1>11. CASE TimeOut
    <2>1. /\ at = "poll" /\ waited > MaxWait /\ at' = "timed_out"
          /\ task' = task /\ waited' = waited /\ elapsed' = elapsed /\ ready' = ready
      BY <1>11 DEF TimeOut
    <2>2. TimeAt(k)'
      <3>1. SpentAt(k)'
        BY <1>5, <1>2, <1>3, <1>6, <2>1 DEF SpentAt
      <3>2. waited' = k * PollInterval
        BY <1>5, <2>1
      <3> QED BY <3>1, <3>2 DEF TimeAt
    <2>3. DoclingTypeOK' /\ SeenSoon'
      BY <1>7, <1>4, <2>1 DEF DoclingTypeOK, SeenSoon, Done, Never
    <2> QED BY <2>2, <2>3 DEF DoclingInv
  <1>12. CASE Fetch
    <2>1. PICK t \in 0..RequestTimeout : elapsed' = elapsed + t
      BY <1>12 DEF Fetch, Call
    <2>2. /\ at = "result" /\ waited' = waited /\ ready' = ready /\ task' = task
          /\ at' \in {"error", "text", "no_text"}
      BY <1>12 DEF Fetch, Call
    <2>3. TimeAt(k)'
      <3>1. SpentAt(k)'
        BY <1>5, <1>2, <1>3, <1>6, <2>1, <2>2 DEF SpentAt
      <3>2. waited' = k * PollInterval
        BY <1>5, <2>2
      <3> QED BY <3>1, <3>2 DEF TimeAt
    <2>4. DoclingTypeOK' /\ SeenSoon'
      BY <1>7, <1>4, <2>1, <2>2 DEF DoclingTypeOK, SeenSoon, Done, Never
    <2> QED BY <2>3, <2>4 DEF DoclingInv
  <1>13. CASE Serve
    <2>1. /\ task = "running" /\ at \in {"poll", "sleep"}
          /\ task' \in {"success", "empty", "failure", "lost"}
          /\ ready' = IF task' \in {"success", "empty"} THEN waited ELSE ready
          /\ at' = at /\ waited' = waited /\ elapsed' = elapsed
      BY <1>13 DEF Serve
    <2>2. TimeAt(k)'
      BY <1>1, <2>1 DEF TimeAt, SpentAt
    <2>3. DoclingTypeOK' /\ SeenSoon'
      BY <1>7, <1>4, <2>1 DEF DoclingTypeOK, SeenSoon, Done, Never
    <2> QED BY <2>2, <2>3 DEF DoclingInv
  <1>14. CASE UNCHANGED doclingVars
    <2>1. TimeAt(k)'
      BY <1>1, <1>14 DEF doclingVars, TimeAt, SpentAt
    <2> QED BY <1>4, <1>14, <2>1 DEF doclingVars, DoclingInv, DoclingTypeOK, SeenSoon, Done, Never
  <1> QED BY <1>8, <1>9, <1>10, <1>11, <1>12, <1>13, <1>14 DEF DoclingNext

LEMMA DoclingImplies == DoclingInv => WaitIsBounded
  <1> SUFFICES ASSUME DoclingInv
               PROVE  /\ elapsed <= Polls * Round + 2 * RequestTimeout
                      /\ at = "timed_out" => ready + PollInterval > MaxWait
    BY DEF WaitIsBounded, Polls, Round
  <1>1. PICK k \in Nat : TimeAt(k)
    BY DEF DoclingInv
  <1>2. /\ Rounds(k) \in Nat /\ Rounds(Polls) \in Nat /\ Polls \in Nat
        /\ RequestTimeout \in Nat
        /\ k <= Polls => Rounds(k) <= Rounds(Polls)
    BY RoundsGrow, DoclingAssumption
  <1>3. elapsed <= Rounds(Polls) + 2 * RequestTimeout
    <2>1. SpentAt(k) /\ DoclingTypeOK /\ Calls = RequestTimeout + RequestTimeout
      BY <1>1, DoclingAssumption DEF TimeAt, DoclingInv, Calls
    <2>2. elapsed <= Rounds(Polls) + Calls
      BY <1>2, <2>1 DEF SpentAt, DoclingTypeOK
    <2> QED BY <2>2 DEF Calls
  <1> QED BY <1>3 DEF Rounds, DoclingInv, SeenSoon

(* A conversion holds its worker for a bounded time, and is not timed out that was done
   an interval before the deadline, whatever the three settings. *)
THEOREM WaitBounded == DoclingSpec => []WaitIsBounded
  <1>1. DoclingSpec => []DoclingInv
    BY DoclingInitial, DoclingStep, PTL DEF DoclingSpec
  <1> QED BY <1>1, DoclingImplies, PTL

-----------------------------------------------------------------------------
(* DerivedStore, for any files, texts and notes.  While a command runs alone, what it has
   taken tells what it has achieved (ReEnriched, BackedUp, Rebuilding).  Beside that every
   file of the mirror is accounted for: it is indexed, or it has Left the index by an
   exclusion, which the sink remembers, or by a tombstone, which nothing remembers.  So
   what a rebuild brings back beyond the index it drops are files of tombstones. *)
Bodies == [text : Texts, blanks : BOOLEAN, notes : Seq(Notes)]
StoredNotes == Notes \cup {NoNote}
IndexDocuments == [id : Files \X Bodies, path : Files, body : Bodies, notes : StoredNotes]
MirrorFiles == {x \in [path : Files, body : Bodies, notes : StoredNotes] : ~x.body.blanks}
Settings == [notes : StoredNotes, closed : BOOLEAN]

Commands == [name : {"re-enrich", "backfill", "reindex", "rebuild"},
             todo : SUBSET (IndexDocuments \cup MirrorFiles), mirrors : BOOLEAN,
             known : SUBSET Files, alone : BOOLEAN]
CommandTyped(c) ==
    /\ c \in Commands
    /\ c.name \in {"re-enrich", "backfill"} => c.todo \subseteq IndexDocuments
    /\ c.name \in {"reindex", "rebuild"} => c.todo \subseteq MirrorFiles

DerivedTyped ==
    /\ raw \in [Files -> Texts \cup {Gone}] /\ chain \in [Files -> Settings]
    /\ \A k \in DOMAIN entry : k \in Files \X Texts /\ entry[k] \in Settings
    /\ documents \subseteq IndexDocuments /\ was \subseteq IndexDocuments
    /\ \A f \in DOMAIN mirror : mirror[f] \in MirrorFiles /\ mirror[f].path = f
    /\ excluded \subseteq Files /\ tombstoned \subseteq Files
    /\ command = NoCommand \/ CommandTyped(command)

LEMMA FileOfTyped ==
  ASSUME NEW d \in IndexDocuments
  PROVE  FileOf(d) \in MirrorFiles /\ FileOf(d).path = d.path
  BY DEF IndexDocuments, MirrorFiles, FileOf, Bodies

LEMMA FromFileTyped ==
  ASSUME NEW x \in MirrorFiles
  PROVE  /\ FromFile(x) \in IndexDocuments /\ FromFile(x).path = x.path
         /\ FileOf(FromFile(x)) = x
  <1>1. FromFile(x) \in IndexDocuments /\ FromFile(x).path = x.path
    BY DEF IndexDocuments, MirrorFiles, FromFile, DocId
  <1>2. [x.body EXCEPT !.blanks = FALSE] = x.body
    BY DEF MirrorFiles, Bodies
  <1>3. FileOf(FromFile(x)) = x
    BY <1>2 DEF MirrorFiles, FromFile, FileOf
  <1> QED BY <1>1, <1>3

LEMMA EnrichedTyped ==
  ASSUME NEW p \in Files, NEW b \in Bodies, NEW note \in StoredNotes
  PROVE  /\ Enriched(p, b, note) \in IndexDocuments
         /\ Enriched(p, b, note).path = p /\ Enriched(p, b, note).id = <<p, b>>
         /\ Enriched(p, b, note).body.text = b.text
         /\ note # NoNote => /\ Enriched(p, b, note).notes = note
                             /\ LET notes == Enriched(p, b, note).body.notes
                                IN  notes[Len(notes)] = note
  <1>1. ASSUME note \in Notes PROVE /\ Append(b.notes, note) \in Seq(Notes)
                                    /\ LET notes == Append(b.notes, note) IN notes[Len(notes)] = note
    BY <1>1, AppendProperties DEF Bodies
  <1>2. /\ Annotated(b, note) \in Bodies /\ Annotated(b, note).text = b.text
        /\ note # NoNote => Annotated(b, note).notes = Append(b.notes, note)
    BY <1>1 DEF Annotated, Bodies, StoredNotes
  <1> QED BY <1>1, <1>2 DEF Enriched, DocId, IndexDocuments, StoredNotes

LEMMA BodyTyped == \A text \in Texts : Body(text) \in Bodies
  BY DEF Body, Bodies

-----------------------------------------------------------------------------
(* A document that is written replaces none but one of its path, and one that is refused
   leaves the index as it is. *)
LEMMA IndexedTyped ==
  ASSUME documents \subseteq IndexDocuments, NEW d \in IndexDocuments, NEW known, NEW closed \in BOOLEAN
  PROVE  Indexed(d, known, closed) \subseteq IndexDocuments
  BY DEF Indexed

LEMMA MirroredTyped ==
  ASSUME \A f \in DOMAIN mirror : mirror[f] \in MirrorFiles /\ mirror[f].path = f,
         NEW d \in IndexDocuments, NEW closed \in BOOLEAN
  PROVE  /\ \A f \in DOMAIN Mirrored(d, closed) :
              Mirrored(d, closed)[f] \in MirrorFiles /\ Mirrored(d, closed)[f].path = f
         /\ closed \/ DOMAIN Mirrored(d, closed) = DOMAIN mirror \cup {d.path}
         /\ closed \/ Mirrored(d, closed)[d.path] = FileOf(d)
         /\ closed \/ \A f \in DOMAIN mirror \ {d.path} : Mirrored(d, closed)[f] = mirror[f]
  BY FileOfTyped DEF Mirrored

(* The id of a document begins with its path. *)
IdsOfPaths == \A d \in documents : d.id[1] = d.path

(* Which of the indexed documents a command has seen to. *)
Left == excluded \cup tombstoned
Accounted(docs) == \A f \in DOMAIN mirror : f \in Left \/ f \in PathsOf(docs)
Enrichable(p) == chain[p].notes # NoNote /\ ~chain[p].closed /\ p \notin excluded
ReEnriched(todo) ==
    \A d \in was \ todo :
        Enrichable(d.path) => Enriched(d.path, d.body, chain[d.path].notes) \in documents
FiledFrom(file, docs) == \E e \in docs : file = FileOf(e)
BackedUp(todo) ==
    \A d \in documents \ todo : d.path \in DOMAIN mirror /\ FiledFrom(mirror[d.path], documents)
Restores(file) ==
    /\ file.path \in Left \cup PathsOf(was)
    /\ file.path \in PathsOf(was) => FiledFrom(file, was)
Rebuilding(todo) ==
    /\ \A x \in todo : Restores(x)
    /\ \A x, y \in todo : x.path = y.path => x = y
    /\ \A d \in documents :
         /\ d.path \notin excluded /\ Restores(FileOf(d))
         /\ \A x \in todo : x.path # d.path
         /\ \A e \in documents : e.path = d.path => e = d
    /\ \A e \in was : e.path \in excluded \cup PathsOf(documents) \cup PathsOf(todo)

DerivedInv ==
    /\ DerivedTyped /\ IdsOfPaths
    /\ command # NoCommand => done = "none" /\ command.known \subseteq excluded
    /\ command.name # "rebuild" => Accounted(documents)
    /\ command.name = "rebuild" =>
         \A f \in DOMAIN mirror : f \in Left \cup PathsOf(documents) \cup PathsOf(command.todo)
    /\ command.name \in {"re-enrich", "backfill"} =>
         \A d \in command.todo : d.path \in Left \cup PathsOf(documents)
    /\ command # NoCommand /\ command.alone =>
         /\ command.known = excluded
         /\ command.name = "re-enrich" => ReEnriched(command.todo)
         /\ command.name = "backfill" =>
              documents = was /\ command.todo \subseteq was /\ BackedUp(command.todo)
         /\ command.name = "rebuild" => Rebuilding(command.todo)
    /\ done = "re-enrich" => ReEnriched({})
    /\ done = "backfill" => BackedUp({})
    /\ done = "rebuild" => Rebuilding({})

LEMMA CommandKnown ==
  ASSUME DerivedTyped
  PROVE  /\ command = NoCommand <=> command.name = "none"
         /\ command # NoCommand => CommandTyped(command) /\ command \in Commands
  BY DEF DerivedTyped, CommandTyped, Commands, NoCommand

(* What happens beside a command takes no file from the index but by an exclusion or a
   tombstone, and adds none to the mirror that it does not add to the index. *)
LEMMA ChangeFrame ==
  ASSUME DerivedInv, Disturb,
         raw' \in [Files -> Texts \cup {Gone}], chain' \in [Files -> Settings],
         \A k \in DOMAIN entry' : k \in Files \X Texts /\ entry'[k] \in Settings,
         documents' \subseteq IndexDocuments, IdsOfPaths',
         \A f \in DOMAIN mirror' : mirror'[f] \in MirrorFiles /\ mirror'[f].path = f,
         DOMAIN mirror' \subseteq DOMAIN mirror \cup Left' \cup PathsOf(documents'),
         excluded \subseteq excluded', excluded' \subseteq Files,
         tombstoned \subseteq tombstoned', tombstoned' \subseteq Files,
         \A d \in documents : d.path \in Left' \cup PathsOf(documents')
  PROVE  DerivedInv'
  <1>1. /\ command' = NoCommand => command = NoCommand
        /\ command # NoCommand => /\ CommandTyped(command') /\ command' # NoCommand
                                  /\ command'.name = command.name /\ command'.todo = command.todo
                                  /\ ~command'.alone /\ command'.known = command.known
        /\ command'.name = command.name
        /\ command = NoCommand => command' = NoCommand
    <2>1. CASE command = NoCommand
      BY <2>1 DEF Disturb
    <2>2. CASE command # NoCommand
      <3>1. command' = [command EXCEPT !.alone = FALSE] /\ CommandTyped(command) /\ command \in Commands
        BY <2>2, CommandKnown DEF Disturb, DerivedInv
      <3>2. command' \in Commands /\ command'.name = command.name /\ command'.todo = command.todo
            /\ ~command'.alone /\ command'.known = command.known
        BY <3>1 DEF Commands
      <3>3. command'.name # "none"
        BY <3>1, <3>2 DEF Commands
      <3> QED BY <2>2, <3>1, <3>2, <3>3 DEF CommandTyped, NoCommand
    <2> QED BY <2>1, <2>2
  <1>2. DerivedTyped'
    BY <1>1 DEF DerivedInv, DerivedTyped, Disturb
  <1>3. done' = "none"
    BY DEF Disturb
  <1>4. Left \subseteq Left' /\ PathsOf(documents) \subseteq Left' \cup PathsOf(documents')
    BY DEF PathsOf, Left
  <1>5. command'.name # "rebuild" => Accounted(documents)'
    BY <1>1, <1>4 DEF DerivedInv, Accounted
  <1>6. command'.name = "rebuild" =>
          \A f \in DOMAIN mirror' : f \in Left' \cup PathsOf(documents') \cup PathsOf(command'.todo)
    <2>1. command.name = "rebuild" => command # NoCommand
      BY DEF NoCommand
    <2> QED BY <1>1, <1>4, <2>1 DEF DerivedInv
  <1>7. command'.name \in {"re-enrich", "backfill"} =>
          \A d \in command'.todo : d.path \in Left' \cup PathsOf(documents')
    <2>1. command.name \in {"re-enrich", "backfill"} => command # NoCommand
      BY DEF NoCommand
    <2> QED BY <1>1, <1>4, <2>1 DEF DerivedInv
  <1> QED BY <1>1, <1>2, <1>3, <1>5, <1>6, <1>7 DEF DerivedInv

LEMMA EditsKeep == ASSUME DerivedInv, EditChain \/ EditText PROVE DerivedInv'
  <1>1. DerivedTyped /\ IdsOfPaths
    BY DEF DerivedInv
  <1>2. \A d \in documents : d.path \in PathsOf(documents)
    BY DEF PathsOf
  <1>3. CASE EditChain
    <2>1. PICK f \in Files, note \in StoredNotes, closed \in BOOLEAN :
            chain' = [chain EXCEPT ![f] = [notes |-> note, closed |-> closed]]
      BY <1>3 DEF EditChain, StoredNotes
    <2>2. chain' \in [Files -> Settings]
      BY <1>1, <2>1 DEF DerivedTyped, Settings
    <2> QED BY <1>1, <1>2, <1>3, <2>2, ChangeFrame DEF EditChain, Change, DerivedTyped, IdsOfPaths
  <1>4. CASE EditText
    <2>1. raw' \in [Files -> Texts \cup {Gone}]
      BY <1>1, <1>4 DEF EditText, DerivedTyped
    <2> QED BY <1>1, <1>2, <1>4, <2>1, ChangeFrame DEF EditText, Change, DerivedTyped, IdsOfPaths
  <1> QED BY <1>3, <1>4

LEMMA RegisterKeeps == ASSUME DerivedInv, Register PROVE DerivedInv'
  <1> DEFINE new == {<<f, raw[f]>> : f \in {g \in Files : raw[g] # Gone}} \ DOMAIN entry
  <1>1. /\ entry' = [k \in DOMAIN entry \cup new |-> IF k \in new THEN chain[k[1]] ELSE entry[k]]
        /\ UNCHANGED <<raw, chain, documents, mirror, excluded, tombstoned, command, was, done>>
    BY DEF Register
  <1>2. DerivedTyped
    BY DEF DerivedInv
  <1>3. \A k \in new : k \in Files \X Texts /\ k[1] \in Files
    BY <1>2 DEF DerivedTyped
  <1> HIDE DEF new
  <1>4. \A k \in DOMAIN entry' : k \in Files \X Texts /\ entry'[k] \in Settings
    BY <1>1, <1>2, <1>3 DEF DerivedTyped
  <1>5. DerivedTyped'
    BY <1>1, <1>2, <1>4 DEF DerivedTyped
  <1> QED BY <1>1, <1>5 DEF DerivedInv, IdsOfPaths, Accounted, Left, ReEnriched, Enrichable,
                            FiledFrom, BackedUp, Restores, Rebuilding

LEMMA IngestKeeps ==
  ASSUME DerivedInv, NEW f \in Files, NEW mirrors \in BOOLEAN, IngestText(f, mirrors)
  PROVE  DerivedInv'
  <1> DEFINE key == <<f, raw[f]>>
             new == Enriched(f, Body(raw[f]), entry[key].notes)
  <1>1. /\ DerivedTyped /\ IdsOfPaths /\ key \in DOMAIN entry /\ Disturb
        /\ documents' = Indexed(new, excluded, FALSE)
        /\ mirror' = IF mirrors THEN Mirrored(new, FALSE) ELSE mirror
        /\ UNCHANGED <<raw, chain, entry, excluded, tombstoned>>
    BY DEF DerivedInv, IngestText, Pending, Change
  <1>2. raw[f] \in Texts /\ entry[key].notes \in StoredNotes
    BY <1>1 DEF DerivedTyped, Settings
  <1>3. new \in IndexDocuments /\ new.path = f /\ new.id[1] = f
    BY <1>2, EnrichedTyped, BodyTyped
  <1> HIDE DEF new, key
  <1>4. documents' \subseteq IndexDocuments /\ IdsOfPaths'
    BY <1>1, <1>3 DEF DerivedTyped, IdsOfPaths, Indexed
  <1>5. \A d \in documents : d.path \in PathsOf(documents')
    BY <1>1, <1>3 DEF IdsOfPaths, Indexed, PathsOf
  <1>6. f \in excluded \/ f \in PathsOf(documents')
    BY <1>1, <1>3 DEF Indexed, PathsOf
  <1>7. /\ \A g \in DOMAIN mirror' : mirror'[g] \in MirrorFiles /\ mirror'[g].path = g
        /\ DOMAIN mirror' \subseteq DOMAIN mirror \cup {f}
    BY <1>1, <1>3, MirroredTyped DEF DerivedTyped
  <1>8. DOMAIN mirror' \subseteq DOMAIN mirror \cup Left' \cup PathsOf(documents')
    BY <1>1, <1>6, <1>7 DEF Left
  <1> QED BY <1>1, <1>4, <1>5, <1>7, <1>8, ChangeFrame DEF DerivedTyped

LEMMA TombstoneKeeps == ASSUME DerivedInv, NEW f \in Files, Tombstone(f) PROVE DerivedInv'
  <1>1. /\ DerivedTyped /\ IdsOfPaths /\ Disturb
        /\ documents' = {d \in documents : d.path # f} /\ tombstoned' = tombstoned \cup {f}
        /\ UNCHANGED <<raw, chain, entry, mirror, excluded>>
    BY DEF DerivedInv, Tombstone
  <1>2. \A d \in documents : d.path \in Left' \cup PathsOf(documents')
    BY <1>1 DEF PathsOf, Left
  <1>3. IdsOfPaths' /\ documents' \subseteq IndexDocuments
    BY <1>1 DEF IdsOfPaths, DerivedTyped
  <1> QED BY <1>1, <1>2, <1>3, ChangeFrame DEF DerivedTyped

LEMMA ExcludeKeeps ==
  ASSUME DerivedInv, NEW f \in Files, NEW stores \in Purges, Exclude(f, stores)
  PROVE  DerivedInv'
  <1>1. /\ DerivedTyped /\ IdsOfPaths /\ Disturb
        /\ documents' \subseteq documents /\ excluded' = excluded \cup {f}
        /\ \A d \in documents : d.path # f => d \in documents'
        /\ \A g \in DOMAIN mirror' : g \in DOMAIN mirror /\ mirror'[g] = mirror[g]
        /\ UNCHANGED <<raw, chain, entry, tombstoned>>
    BY DEF DerivedInv, Exclude, Change
  <1>2. \A d \in documents : d.path \in Left' \cup PathsOf(documents')
    BY <1>1 DEF PathsOf, Left
  <1>3. IdsOfPaths' /\ documents' \subseteq IndexDocuments
    BY <1>1 DEF IdsOfPaths, DerivedTyped
  <1> QED BY <1>1, <1>2, <1>3, ChangeFrame DEF DerivedTyped

LEMMA BeginsKeep ==
  ASSUME DerivedInv, BeginReEnrich \/ BeginBackfill \/ BeginReindex \/ BeginRebuild
  PROVE  DerivedInv'
  <1>1. DerivedTyped /\ IdsOfPaths /\ command = NoCommand /\ command.name = "none"
    BY DEF DerivedInv, Begin, BeginReEnrich, BeginBackfill, BeginReindex, BeginRebuild, NoCommand
  <1>2. PICK name \in {"re-enrich", "backfill", "reindex", "rebuild"},
             todo \in SUBSET (IndexDocuments \cup MirrorFiles), mirrors \in BOOLEAN :
          /\ Begin(name, todo, mirrors)
          /\ name \in {"re-enrich", "backfill"} => todo = documents
          /\ name \in {"reindex", "rebuild"} => todo = {mirror[f] : f \in DOMAIN mirror}
          /\ name # "rebuild" => documents' = documents
          /\ name = "rebuild" => documents' = {} /\ done = "backfill"
    <2>1. documents \in SUBSET (IndexDocuments \cup MirrorFiles)
          /\ {mirror[f] : f \in DOMAIN mirror} \in SUBSET (IndexDocuments \cup MirrorFiles)
      BY <1>1 DEF DerivedTyped
    <2>2. CASE BeginReEnrich
      BY <2>1, <2>2 DEF BeginReEnrich
    <2>3. CASE BeginBackfill
      BY <2>1, <2>3 DEF BeginBackfill
    <2>4. CASE BeginReindex
      BY <2>1, <2>4 DEF BeginReindex
    <2>5. CASE BeginRebuild
      BY <2>1, <2>5 DEF BeginRebuild
    <2> QED BY <2>2, <2>3, <2>4, <2>5
  <1>3. /\ command' = [name |-> name, todo |-> todo, mirrors |-> mirrors,
                       known |-> excluded, alone |-> TRUE]
        /\ was' = documents /\ done' = "none"
        /\ UNCHANGED <<raw, chain, entry, mirror, excluded, tombstoned>>
    BY <1>2 DEF Begin
  <1>4. /\ command'.name = name /\ command'.todo = todo /\ command'.known = excluded
        /\ CommandTyped(command')
    <2>1. todo \subseteq IF name \in {"re-enrich", "backfill"} THEN IndexDocuments ELSE MirrorFiles
      BY <1>1, <1>2 DEF DerivedTyped
    <2> QED BY <1>1, <1>3, <2>1 DEF CommandTyped, Commands, DerivedTyped
  <1>5. DerivedTyped' /\ IdsOfPaths'
    BY <1>1, <1>2, <1>3, <1>4 DEF DerivedTyped, IdsOfPaths
  <1>6. command'.name # "rebuild" => Accounted(documents)'
    BY <1>1, <1>2, <1>3, <1>4 DEF DerivedInv, Accounted, Left
  <1>7. command'.name = "rebuild" =>
          \A f \in DOMAIN mirror' : f \in Left' \cup PathsOf(documents') \cup PathsOf(command'.todo)
    BY <1>1, <1>2, <1>3, <1>4 DEF DerivedTyped, PathsOf
  <1>8. command'.name \in {"re-enrich", "backfill"} =>
          \A d \in command'.todo : d.path \in Left' \cup PathsOf(documents')
    BY <1>2, <1>3, <1>4 DEF PathsOf
  <1>9. command'.name = "re-enrich" => ReEnriched(command.todo)'
    BY <1>2, <1>3, <1>4 DEF ReEnriched
  <1>10. command'.name = "backfill" =>
           documents' = was' /\ command'.todo \subseteq was' /\ BackedUp(command.todo)'
    BY <1>2, <1>3, <1>4 DEF BackedUp
  <1>11. command'.name = "rebuild" => Rebuilding(command.todo)'
    <2> SUFFICES ASSUME name = "rebuild" PROVE Rebuilding(command.todo)'
      BY <1>4
    <2>1. Accounted(documents) /\ BackedUp({}) /\ documents' = {}
      BY <1>1, <1>2 DEF DerivedInv
    <2>2. \A x \in todo : \E f \in DOMAIN mirror : x = mirror[f] /\ x.path = f
      BY <1>1, <1>2 DEF DerivedTyped
    <2>3. ASSUME NEW x \in todo
          PROVE  /\ x.path \in Left \cup PathsOf(documents)
                 /\ x.path \in PathsOf(documents) => FiledFrom(x, documents)
      <3>1. PICK f \in DOMAIN mirror : x = mirror[f] /\ x.path = f
        BY <2>2
      <3>2. CASE f \in PathsOf(documents)
        BY <2>1, <3>1, <3>2 DEF BackedUp, PathsOf
      <3> QED BY <2>1, <3>1, <3>2 DEF Accounted
    <2>4. \A x, y \in todo : x.path = y.path => x = y
      BY <2>2
    <2>5. \A e \in documents : e.path \in PathsOf(todo)
      BY <1>2, <2>1, <1>1 DEF BackedUp, PathsOf, DerivedTyped
    <2>6. \A x \in todo : Restores(x)'
      BY <1>3, <2>3 DEF Restores, FiledFrom, Left
    <2> QED BY <1>3, <1>4, <2>1, <2>4, <2>5, <2>6 DEF Rebuilding
  <1> QED BY <1>3, <1>4, <1>5, <1>6, <1>7, <1>8, <1>9, <1>10, <1>11 DEF DerivedInv

LEMMA TakeTyped ==
  ASSUME DerivedTyped, command # NoCommand, NEW d, Take(d)
  PROVE  /\ command'.todo = command.todo \ {d} /\ command'.name = command.name
         /\ command'.known = command.known /\ command'.alone = command.alone
         /\ CommandTyped(command') /\ command' # NoCommand
         /\ UNCHANGED <<raw, chain, entry, excluded, tombstoned, was, done>>
  <1>1. command \in Commands /\ CommandTyped(command)
    BY CommandKnown
  <1>2. command' = [command EXCEPT !.todo = @ \ {d}]
    BY DEF Take
  <1>3. command' \in Commands /\ command'.todo = command.todo \ {d} /\ command'.name = command.name
        /\ command'.known = command.known /\ command'.alone = command.alone
    BY <1>1, <1>2 DEF Commands
  <1>4. command'.name # "none"
    BY <1>3 DEF Commands
  <1> QED BY <1>1, <1>3, <1>4 DEF CommandTyped, NoCommand, Take

LEMMA ReEnrichKeeps ==
  ASSUME DerivedInv, command # NoCommand, NEW d \in command.todo, ReEnrichOne(d) PROVE DerivedInv'
  <1> DEFINE note == Overlaid(d)
             closed == chain[d.path].closed
             new == Enriched(d.path, d.body, note)
  <1>1. /\ DerivedTyped /\ IdsOfPaths /\ command.name = "re-enrich" /\ Take(d)
        /\ done = "none" /\ Accounted(documents)
    BY DEF DerivedInv, ReEnrichOne
  <1>2. d \in IndexDocuments /\ command.todo \subseteq IndexDocuments
    BY <1>1, CommandKnown DEF CommandTyped
  <1>3. d.path \in Files /\ d.body \in Bodies /\ closed \in BOOLEAN /\ note \in StoredNotes
    <2>1. d.path \in Files /\ d.body \in Bodies /\ d.notes \in StoredNotes
      BY <1>2 DEF IndexDocuments
    <2>2. chain[d.path] \in Settings
      BY <1>1, <2>1 DEF DerivedTyped
    <2> QED BY <2>1, <2>2 DEF Settings, Overlaid
  <1>4. new \in IndexDocuments /\ new.path = d.path /\ new.id = <<d.path, d.body>>
    BY <1>3, EnrichedTyped
  <1>5. /\ documents' = Indexed(new, command.known, closed)
        /\ mirror' = IF command.mirrors THEN Mirrored(new, closed) ELSE mirror
    BY DEF ReEnrichOne
  <1> HIDE DEF new, note, closed
  <1>6. documents' \subseteq IndexDocuments /\ IdsOfPaths'
    BY <1>1, <1>3, <1>4, <1>5 DEF Indexed, DerivedTyped, IdsOfPaths
  <1>7. PathsOf(documents) \subseteq PathsOf(documents')
    BY <1>1, <1>4, <1>5 DEF Indexed, IdsOfPaths, PathsOf
  <1>8. DerivedTyped'
    <2>1. \A f \in DOMAIN mirror' : mirror'[f] \in MirrorFiles /\ mirror'[f].path = f
      BY <1>1, <1>3, <1>4, <1>5, MirroredTyped DEF DerivedTyped
    <2> QED BY <1>1, <1>6, <2>1, TakeTyped DEF DerivedTyped
  <1>9. Accounted(documents)'
    <2>1. d.path \in Left \cup PathsOf(documents)
      BY <1>1 DEF DerivedInv
    <2>2. DOMAIN mirror' \subseteq DOMAIN mirror \cup {d.path}
      BY <1>1, <1>3, <1>4, <1>5, MirroredTyped DEF DerivedTyped, Mirrored
    <2> QED BY <1>1, <1>7, <2>1, <2>2, TakeTyped DEF Accounted, Left
  <1>10. \A e \in command'.todo : e.path \in Left' \cup PathsOf(documents')
    BY <1>1, <1>7, TakeTyped DEF DerivedInv, Left
  <1>11. ASSUME command.alone PROVE ReEnriched(command.todo)'
    <2>1. command.known = excluded /\ ReEnriched(command.todo)
      BY <1>1, <1>11 DEF DerivedInv
    <2>2. SUFFICES ASSUME NEW e \in was, e \notin command.todo \ {d}, Enrichable(e.path)
          PROVE  Enriched(e.path, e.body, chain[e.path].notes) \in documents'
      BY <1>1, TakeTyped DEF ReEnriched, Enrichable
    <2> DEFINE wanted == Enriched(e.path, e.body, chain[e.path].notes)
    <2>3. e \in IndexDocuments /\ chain[e.path].notes \in StoredNotes
      BY <1>1 DEF DerivedTyped, IndexDocuments, Settings
    <2>4. wanted.id = <<e.path, e.body>>
      BY <2>3, EnrichedTyped DEF IndexDocuments
    <2>5. e.path = d.path => note = chain[e.path].notes
      BY <2>2 DEF note, Overlaid, Enrichable
    <2>6. CASE e.path = d.path /\ e.body = d.body
      <3>1. wanted = new
        BY <2>5, <2>6 DEF new
      <3>2. new \in documents'
        BY <1>4, <1>5, <2>1, <2>2, <2>6 DEF Indexed, Enrichable, closed
      <3> QED BY <3>1, <3>2
    <2>7. CASE ~(e.path = d.path /\ e.body = d.body)
      <3>1. wanted \in documents
        BY <2>1, <2>2, <2>7 DEF ReEnriched
      <3>2. wanted.id # new.id
        BY <1>4, <2>4, <2>7
      <3> HIDE DEF wanted
      <3>3. wanted \in documents'
        BY <1>5, <3>1, <3>2 DEF Indexed
      <3> QED BY <3>3 DEF wanted
    <2> QED BY <2>6, <2>7
  <1>12. command'.known = excluded' \/ ~command'.alone
    BY <1>1, TakeTyped DEF DerivedInv
  <1> QED BY <1>1, <1>6, <1>8, <1>9, <1>10, <1>11, <1>12, TakeTyped DEF DerivedInv

LEMMA BackfillKeeps ==
  ASSUME DerivedInv, command # NoCommand, NEW d \in command.todo, BackfillOne(d) PROVE DerivedInv'
  <1>1. /\ DerivedTyped /\ IdsOfPaths /\ command.name = "backfill" /\ Take(d)
        /\ done = "none" /\ Accounted(documents) /\ documents' = documents
    BY DEF DerivedInv, BackfillOne
  <1>2. d \in IndexDocuments
    BY <1>1, CommandKnown DEF CommandTyped
  <1>3. /\ \A f \in DOMAIN mirror' : mirror'[f] \in MirrorFiles /\ mirror'[f].path = f
        /\ DOMAIN mirror' = DOMAIN mirror \cup {d.path}
        /\ mirror'[d.path] = FileOf(d)
        /\ \A f \in DOMAIN mirror \ {d.path} : mirror'[f] = mirror[f]
    BY <1>1, <1>2, MirroredTyped DEF BackfillOne, DerivedTyped
  <1>4. DerivedTyped' /\ IdsOfPaths'
    BY <1>1, <1>3, TakeTyped DEF DerivedTyped, IdsOfPaths
  <1>5. Accounted(documents)' /\ \A e \in command'.todo : e.path \in Left' \cup PathsOf(documents')
    BY <1>1, <1>3, TakeTyped DEF DerivedInv, Accounted, Left
  <1>6. ASSUME command.alone PROVE documents' = was' /\ command'.todo \subseteq was' /\ BackedUp(command.todo)'
    <2>1. documents = was /\ command.todo \subseteq was /\ BackedUp(command.todo)
      BY <1>1, <1>6 DEF DerivedInv
    <2>2. d \in documents
      BY <1>1, <1>6, <2>1 DEF DerivedInv
    <2>3. SUFFICES ASSUME NEW e \in documents, e \notin command.todo \ {d}
          PROVE  e.path \in DOMAIN mirror' /\ FiledFrom(mirror'[e.path], documents)
      BY <1>1, <2>1, TakeTyped DEF BackedUp, FiledFrom
    <2>4. CASE e.path = d.path
      BY <1>3, <2>2, <2>4 DEF FiledFrom
    <2>5. CASE e.path # d.path
      BY <1>3, <2>1, <2>3, <2>5 DEF BackedUp
    <2> QED BY <2>4, <2>5
  <1>7. command'.known = excluded' \/ ~command'.alone
    BY <1>1, TakeTyped DEF DerivedInv
  <1> QED BY <1>1, <1>4, <1>5, <1>6, <1>7, TakeTyped DEF DerivedInv

LEMMA ReindexKeeps ==
  ASSUME DerivedInv, command # NoCommand, NEW file \in command.todo, ReindexOne(file)
  PROVE  DerivedInv'
  <1> DEFINE new == FromFile(file)
  <1>1. /\ DerivedTyped /\ IdsOfPaths /\ command.name \in {"reindex", "rebuild"} /\ Take(file)
        /\ done = "none" /\ mirror' = mirror
        /\ documents' = Indexed(new, command.known, FALSE)
    BY DEF DerivedInv, ReindexOne
  <1>2. file \in MirrorFiles
    BY <1>1, CommandKnown DEF CommandTyped
  <1>3. new \in IndexDocuments /\ new.path = file.path /\ FileOf(new) = file /\ new.id[1] = file.path
    BY <1>2, FromFileTyped DEF FromFile, DocId
  <1> HIDE DEF new
  <1>4. documents' \subseteq IndexDocuments /\ IdsOfPaths'
    BY <1>1, <1>3 DEF Indexed, DerivedTyped, IdsOfPaths
  <1>5. DerivedTyped'
    BY <1>1, <1>4, TakeTyped DEF DerivedTyped
  <1>6. PathsOf(documents) \subseteq PathsOf(documents')
    BY <1>1, <1>3 DEF Indexed, IdsOfPaths, PathsOf
  <1>7. file.path \in command.known \/ file.path \in PathsOf(documents')
    BY <1>1, <1>3 DEF Indexed, PathsOf
  <1>8. command.known \subseteq excluded
    BY DEF DerivedInv
  <1>9. command.name = "reindex" => Accounted(documents)'
    <2>1. command.name = "reindex" => Accounted(documents)
      BY DEF DerivedInv
    <2> QED BY <1>1, <1>6, <2>1, TakeTyped DEF Accounted, Left
  <1>10. ASSUME command.name = "rebuild", NEW f \in DOMAIN mirror'
         PROVE  f \in Left' \cup PathsOf(documents') \cup PathsOf(command'.todo)
    <2>1. f \in Left \cup PathsOf(documents) \cup PathsOf(command.todo)
      BY <1>1, <1>10 DEF DerivedInv
    <2>2. PathsOf(command.todo) \subseteq {file.path} \cup PathsOf(command'.todo)
      BY <1>1, TakeTyped DEF PathsOf
    <2> QED BY <1>1, <1>6, <1>7, <1>8, <2>1, <2>2, TakeTyped DEF Left
  <1>11. ASSUME command.name = "rebuild", command.alone PROVE Rebuilding(command.todo)'
    <2>1. Rebuilding(command.todo) /\ command.known = excluded
      BY <1>11 DEF DerivedInv
    <2>2. UNCHANGED <<was, excluded, tombstoned>> /\ command'.todo = command.todo \ {file}
      BY <1>1, TakeTyped
    <2>3. \A d \in documents : d.path # file.path
      BY <2>1 DEF Rebuilding
    <2>4. \A d \in documents' : d \in documents \/ d = new
      BY <1>1 DEF Indexed
    <2>5. new \in documents' => file.path \notin excluded
      BY <1>1, <1>3, <2>1, <2>3 DEF Indexed
    <2>6. ASSUME NEW x \in command'.todo PROVE Restores(x)
      BY <2>1, <2>2 DEF Rebuilding
    <2>7. ASSUME NEW x \in command'.todo, NEW y \in command'.todo, x.path = y.path PROVE x = y
      BY <2>1, <2>2, <2>7 DEF Rebuilding
    <2>8. ASSUME NEW d \in documents'
          PROVE  /\ d.path \notin excluded /\ Restores(FileOf(d))
                 /\ \A x \in command'.todo : x.path # d.path
                 /\ \A e \in documents' : e.path = d.path => e = d
      <3>1. CASE d \in documents
        BY <1>3, <2>1, <2>2, <2>3, <2>4, <3>1 DEF Rebuilding
      <3>2. CASE d = new
        <4>1. file.path \notin excluded /\ Restores(file)
          BY <2>1, <2>5, <2>8, <3>2 DEF Rebuilding
        <4>2. \A x \in command'.todo : x.path # file.path
          BY <2>1, <2>2 DEF Rebuilding
        <4> QED BY <1>3, <2>3, <2>4, <3>2, <4>1, <4>2
      <3> QED BY <2>4, <3>1, <3>2
    <2>9. ASSUME NEW e \in was
          PROVE  e.path \in excluded \cup PathsOf(documents') \cup PathsOf(command'.todo)
      <3>1. e.path \in excluded \cup PathsOf(documents) \cup PathsOf(command.todo)
        BY <2>1 DEF Rebuilding
      <3>2. PathsOf(command.todo) \subseteq {file.path} \cup PathsOf(command'.todo)
        BY <2>2 DEF PathsOf
      <3> QED BY <1>6, <1>7, <1>8, <3>1, <3>2
    <2> QED BY <2>2, <2>6, <2>7, <2>8, <2>9 DEF Rebuilding, Restores, FiledFrom, Left
  <1>12. command'.known = excluded' \/ ~command'.alone
    BY <1>1, TakeTyped DEF DerivedInv
  <1> QED BY <1>1, <1>4, <1>5, <1>8, <1>9, <1>10, <1>11, <1>12, TakeTyped DEF DerivedInv

LEMMA EndKeeps ==
  ASSUME DerivedInv, EndCommand PROVE DerivedInv'
  <1>1. /\ command # NoCommand /\ command.todo = {} /\ command' = NoCommand
        /\ command'.name = "none" /\ command \in Commands
        /\ done' = IF command.alone THEN command.name ELSE "none"
        /\ UNCHANGED <<raw, chain, entry, documents, mirror, excluded, tombstoned, was>>
    BY CommandKnown DEF EndCommand, NoCommand, DerivedInv
  <1>2. DerivedTyped' /\ IdsOfPaths'
    BY <1>1 DEF DerivedInv, DerivedTyped, IdsOfPaths
  <1>3. Accounted(documents)'
    BY <1>1 DEF DerivedInv, Accounted, Left, PathsOf
  <1>4. done' = "re-enrich" => ReEnriched({})'
    BY <1>1 DEF DerivedInv, ReEnriched, Enrichable
  <1>5. done' = "backfill" => BackedUp({})'
    BY <1>1 DEF DerivedInv, BackedUp
  <1>6. done' = "rebuild" => Rebuilding({})'
    BY <1>1 DEF DerivedInv, Rebuilding, Restores, Left
  <1> QED BY <1>1, <1>2, <1>3, <1>4, <1>5, <1>6 DEF DerivedInv

LEMMA DerivedInvariance == DerivedSpec => []DerivedInv
  <1>1. DerivedInit => DerivedInv
    <2> SUFFICES ASSUME DerivedInit PROVE DerivedInv
      OBVIOUS
    <2>1. command = NoCommand /\ command.name = "none" /\ done = "none" /\ documents = {}
          /\ DOMAIN mirror = {} /\ DOMAIN entry = {}
      BY DEF DerivedInit, NoCommand
    <2>2. chain \in [Files -> Settings]
      BY DEF DerivedInit, Settings, StoredNotes
    <2>3. DerivedTyped
      BY <2>1, <2>2 DEF DerivedInit, DerivedTyped
    <2> QED BY <2>1, <2>3 DEF DerivedInv, IdsOfPaths, Accounted
  <1>2. DerivedInv /\ [DerivedNext]_derivedVars => DerivedInv'
    <2> SUFFICES ASSUME DerivedInv, [DerivedNext]_derivedVars PROVE DerivedInv'
      OBVIOUS
    <2>1. CASE Work
      <3>1. command # NoCommand
        BY <2>1 DEF Work, NoCommand
      <3> QED BY <2>1, <3>1, ReEnrichKeeps, BackfillKeeps, ReindexKeeps DEF Work
    <2>2. CASE UNCHANGED derivedVars
      BY <2>2 DEF derivedVars, DerivedInv, DerivedTyped, IdsOfPaths, Accounted, Left, ReEnriched,
                  Enrichable, FiledFrom, BackedUp, Restores, Rebuilding
    <2> QED BY <2>1, <2>2, EditsKeep, RegisterKeeps, IngestKeeps, TombstoneKeeps, ExcludeKeeps,
               BeginsKeep, EndKeeps DEF DerivedNext
  <1> QED BY <1>1, <1>2, PTL DEF DerivedSpec

(* An edit of the notes is in the index after a run of re-enrich beside which nothing
   happened, whatever was stored before, for any files, texts and notes. *)
THEOREM EditsTakeEffectSafety == DerivedSpec => []EditsTakeEffect
  <1>1. ASSUME DerivedInv PROVE EditsTakeEffect
    <2> SUFFICES ASSUME done = "re-enrich", NEW d \in was, Enrichable(d.path)
                 PROVE \E e \in documents :
                         /\ e.path = d.path /\ e.body.text = d.body.text
                         /\ e.notes = chain[d.path].notes
                         /\ e.body.notes[Len(e.body.notes)] = chain[d.path].notes
      BY DEF EditsTakeEffect, Enrichable
    <2> DEFINE e == Enriched(d.path, d.body, chain[d.path].notes)
    <2>1. e \in documents
      BY <1>1 DEF DerivedInv, ReEnriched
    <2>2. d.path \in Files /\ d.body \in Bodies /\ chain[d.path].notes \in StoredNotes
      BY <1>1 DEF DerivedInv, DerivedTyped, IndexDocuments, Settings
    <2>3. e.path = d.path /\ e.body.text = d.body.text /\ e.notes = chain[d.path].notes
          /\ e.body.notes[Len(e.body.notes)] = chain[d.path].notes
      BY <2>2, EnrichedTyped DEF Enrichable
    <2> HIDE DEF e
    <2> QED BY <2>1, <2>3
  <1> QED BY <1>1, DerivedInvariance, PTL

(* The index can be dropped and made again from the mirror after a backfill, whatever was
   ingested, deleted and excluded before, with or without the mirror: it has every path it
   had that is not excluded, as the mirror keeps it, and nothing that is; and what it has
   beyond that are only files that a tombstone had taken from the index. *)
THEOREM RebuildSafety == DerivedSpec => []RebuildRestores
  <1>1. ASSUME DerivedInv PROVE RebuildRestores
    <2> SUFFICES ASSUME done = "rebuild"
                 PROVE /\ PathsOf(was) \ excluded \subseteq PathsOf(documents)
                       /\ PathsOf(documents) \subseteq (PathsOf(was) \cup tombstoned) \ excluded
                       /\ \A d \in documents :
                            /\ \A e \in documents : e.path = d.path => e = d
                            /\ d.path \in PathsOf(was) => \E e \in was : FileOf(e) = FileOf(d)
      BY DEF RebuildRestores
    <2>1. Rebuilding({}) /\ documents \subseteq IndexDocuments
      BY <1>1 DEF DerivedInv, DerivedTyped
    <2>2. PathsOf(was) \ excluded \subseteq PathsOf(documents)
      BY <2>1 DEF Rebuilding, PathsOf
    <2>3. ASSUME NEW d \in documents
          PROVE  /\ d.path \in (PathsOf(was) \cup tombstoned) \ excluded
                 /\ d.path \in PathsOf(was) => FiledFrom(FileOf(d), was)
      <3>1. FileOf(d).path = d.path
        BY <2>1, FileOfTyped
      <3>2. d.path \notin excluded /\ Restores(FileOf(d))
        BY <2>1 DEF Rebuilding
      <3> QED BY <3>1, <3>2 DEF Restores, Left
    <2>4. PathsOf(documents) \subseteq (PathsOf(was) \cup tombstoned) \ excluded
      BY <2>3 DEF PathsOf
    <2> QED BY <2>1, <2>2, <2>3, <2>4 DEF Rebuilding, FiledFrom
  <1> QED BY <1>1, DerivedInvariance, PTL

-----------------------------------------------------------------------------
(* A file that never had a note, and never ends in blank lines, keeps one id for each of
   its texts on all the ways between the index and the files, whatever happens to the
   other files. *)
Noteless(p) == chain[p].notes = NoNote /\ raw[p] \notin Ragged

Plain(x) == x.notes = NoNote /\ ~x.body.blanks /\ x.body.notes = <<>>

PlainFile(p) ==
    /\ \A k \in DOMAIN entry : k[1] = p => entry[k].notes = NoNote
    /\ \A d \in documents : d.path = p => Plain(d) /\ d.id = <<p, d.body>>
    /\ p \in DOMAIN mirror => Plain(mirror[p])
    /\ command # NoCommand => \A x \in command.todo : x.path = p => Plain(x)

OneDocumentOf(p) ==
    \A d, e \in documents : d.path = p /\ e.path = p /\ d.body.text = e.body.text => d = e

(* What is not annotated is not changed, nor is what has no blank lines to lose. *)
LEMMA PlainKept ==
  ASSUME NEW p \in Files, NEW b \in Bodies, ~b.blanks, b.notes = <<>>
  PROVE  /\ Plain(Enriched(p, b, NoNote)) /\ Enriched(p, b, NoNote).path = p
         /\ Enriched(p, b, NoNote).id = <<p, Enriched(p, b, NoNote).body>>
  BY DEF Enriched, Annotated, Plain, DocId

LEMMA FileOfPlain ==
  ASSUME NEW d \in IndexDocuments, Plain(d) PROVE Plain(FileOf(d))
  BY DEF IndexDocuments, Bodies, Plain, FileOf

LEMMA IndexedPlain ==
  ASSUME NEW p, PlainFile(p), NEW d, NEW known, NEW closed,
         d.path = p => Plain(d) /\ d.id = <<p, d.body>>,
         NEW e \in Indexed(d, known, closed), e.path = p
  PROVE  Plain(e) /\ e.id = <<p, e.body>>
  BY DEF Indexed, PlainFile

LEMMA MirroredPlain ==
  ASSUME NEW p, PlainFile(p), NEW d \in IndexDocuments, NEW closed,
         d.path = p => Plain(d), p \in DOMAIN Mirrored(d, closed)
  PROVE  Plain(Mirrored(d, closed)[p])
  BY FileOfPlain DEF Mirrored, PlainFile

LEMMA PlainStep ==
  ASSUME NEW p \in Files, DerivedInv, PlainFile(p), Noteless(p), Noteless(p)',
         [DerivedNext]_derivedVars
  PROVE  PlainFile(p)'
  <1>1. ASSUME Disturb
        PROVE  command' # NoCommand => command # NoCommand /\ command'.todo = command.todo
    <2>1. CASE command = NoCommand
      BY <1>1, <2>1 DEF Disturb
    <2>2. CASE command # NoCommand
      <3>1. command' = [command EXCEPT !.alone = FALSE] /\ command \in Commands
        BY <1>1, <2>2, CommandKnown DEF Disturb, DerivedInv
      <3> QED BY <2>2, <3>1 DEF Commands
    <2> QED BY <2>1, <2>2
  <1>2. CASE EditChain \/ EditText
    BY <1>1, <1>2 DEF EditChain, EditText, Change, PlainFile, Plain
  <1>3. CASE Register
    <2> DEFINE new == {<<f, raw[f]>> : f \in {g \in Files : raw[g] # Gone}} \ DOMAIN entry
    <2>1. /\ entry' = [k \in DOMAIN entry \cup new |-> IF k \in new THEN chain[k[1]] ELSE entry[k]]
          /\ UNCHANGED <<documents, mirror, command>>
      BY <1>3 DEF Register
    <2> HIDE DEF new
    <2>2. \A k \in DOMAIN entry' : k[1] = p => entry'[k].notes = NoNote
      BY <2>1 DEF PlainFile, Noteless
    <2> QED BY <2>1, <2>2 DEF PlainFile, Plain
  <1>4. ASSUME NEW f \in Files, NEW mirrors \in BOOLEAN, IngestText(f, mirrors)
        PROVE  PlainFile(p)'
    <2> DEFINE key == <<f, raw[f]>>
               note == entry[key].notes
               d == Enriched(f, Body(raw[f]), note)
    <2>1. /\ Disturb /\ UNCHANGED entry /\ key \in DOMAIN entry
          /\ documents' = Indexed(d, excluded, FALSE)
          /\ mirror' = IF mirrors THEN Mirrored(d, FALSE) ELSE mirror
      BY <1>4 DEF IngestText, Pending, Change
    <2>2. f = p => note = NoNote
      BY <2>1 DEF PlainFile
    <2>3. raw[f] \in Texts /\ Body(raw[f]) \in Bodies /\ note \in StoredNotes
      BY <2>1, BodyTyped DEF DerivedInv, DerivedTyped, Settings
    <2>4. d \in IndexDocuments /\ d.path = f
      BY <2>3, EnrichedTyped
    <2>5. f = p => Plain(d) /\ d.id = <<p, d.body>>
      <3>1. f = p => ~Body(raw[f]).blanks /\ Body(raw[f]).notes = <<>>
        BY DEF Body, Noteless
      <3> HIDE DEF note
      <3> QED BY <2>2, <2>3, <3>1, PlainKept
    <2> HIDE DEF d, note, key
    <2>6. \A e \in documents' : e.path = p => Plain(e) /\ e.id = <<p, e.body>>
      BY <2>1, <2>4, <2>5 DEF Indexed, PlainFile
    <2>7. p \in DOMAIN mirror' => Plain(mirror'[p])
      BY <2>1, <2>4, <2>5, MirroredPlain DEF PlainFile
    <2> QED BY <1>1, <2>1, <2>6, <2>7 DEF PlainFile, Plain
  <1>5. ASSUME NEW f \in Files,
               Tombstone(f) \/ \E stores \in Purges : Exclude(f, stores)
        PROVE  PlainFile(p)'
    <2>1. /\ Disturb /\ UNCHANGED entry /\ documents' \subseteq documents
          /\ p \in DOMAIN mirror' => p \in DOMAIN mirror /\ mirror'[p] = mirror[p]
      BY <1>5 DEF Tombstone, Exclude, Change
    <2> QED BY <1>1, <2>1 DEF PlainFile, Plain
  <1>6. CASE BeginReEnrich \/ BeginBackfill
    <2>1. /\ UNCHANGED <<entry, mirror, documents>> /\ command'.todo = documents
      BY <1>6 DEF BeginReEnrich, BeginBackfill, Begin
    <2> QED BY <2>1 DEF PlainFile, Plain
  <1>7. CASE BeginReindex \/ BeginRebuild
    <2>1. /\ UNCHANGED <<entry, mirror>> /\ documents' \subseteq documents
          /\ command'.todo = {mirror[f] : f \in DOMAIN mirror}
      BY <1>7 DEF BeginReindex, BeginRebuild, Begin
    <2>2. \A x \in command'.todo : x.path = p => Plain(x)
      BY <2>1 DEF PlainFile, DerivedInv, DerivedTyped
    <2> QED BY <2>1, <2>2 DEF PlainFile, Plain
  <1>8. CASE Work
    <2>1. PICK x \in command.todo : ReEnrichOne(x) \/ BackfillOne(x) \/ ReindexOne(x)
      BY <1>8 DEF Work
    <2>2. command # NoCommand /\ command \in Commands /\ CommandTyped(command)
      BY <1>8, CommandKnown DEF Work, DerivedInv
    <2>3. x.path = p => Plain(x)
      BY <2>2 DEF PlainFile
    <2>4. UNCHANGED entry /\ command'.todo \subseteq command.todo
      BY <2>1, <2>2 DEF ReEnrichOne, BackfillOne, ReindexOne, Take, Commands
    <2>5. CASE ReEnrichOne(x)
      <3> DEFINE new == Enriched(x.path, x.body, Overlaid(x))
                 closed == chain[x.path].closed
      <3>1. /\ documents' = Indexed(new, command.known, closed)
            /\ mirror' = IF command.mirrors THEN Mirrored(new, closed) ELSE mirror
        BY <2>5 DEF ReEnrichOne
      <3>2. x \in IndexDocuments
        BY <2>2, <2>5 DEF ReEnrichOne, CommandTyped
      <3>3. x.path \in Files /\ x.body \in Bodies /\ Overlaid(x) \in StoredNotes
        BY <3>2 DEF IndexDocuments, Overlaid, DerivedInv, DerivedTyped, Settings
      <3>4. new \in IndexDocuments /\ new.path = x.path
        BY <3>3, EnrichedTyped
      <3>5. new.path = p => Plain(new) /\ new.id = <<p, new.body>>
        <4>1. ASSUME x.path = p PROVE Overlaid(x) = NoNote
          BY <2>3, <4>1 DEF Overlaid, Noteless, Plain
        <4> QED BY <2>3, <3>3, <3>4, <4>1, PlainKept DEF Plain
      <3> HIDE DEF new
      <3>6. \A e \in documents' : e.path = p => Plain(e) /\ e.id = <<p, e.body>>
        BY <3>1, <3>5, IndexedPlain
      <3>7. p \in DOMAIN mirror' => Plain(mirror'[p])
        BY <3>1, <3>4, <3>5, MirroredPlain DEF PlainFile
      <3> QED BY <2>2, <2>4, <3>6, <3>7 DEF PlainFile, Plain
    <2>6. CASE BackfillOne(x)
      <3>1. mirror' = Mirrored(x, FALSE) /\ UNCHANGED documents
        BY <2>6 DEF BackfillOne
      <3>2. x \in IndexDocuments
        BY <2>2, <2>6 DEF BackfillOne, CommandTyped
      <3>3. p \in DOMAIN mirror' => Plain(mirror'[p])
        BY <2>3, <3>1, <3>2, MirroredPlain
      <3> QED BY <2>2, <2>4, <3>1, <3>3 DEF PlainFile, Plain
    <2>7. CASE ReindexOne(x)
      <3> DEFINE d == FromFile(x)
      <3>1. documents' = Indexed(d, command.known, FALSE) /\ UNCHANGED mirror
        BY <2>7 DEF ReindexOne
      <3>2. d.path = p => Plain(d) /\ d.id = <<p, d.body>>
        BY <2>3 DEF FromFile, Plain, DocId
      <3> HIDE DEF d
      <3>3. \A e \in documents' : e.path = p => Plain(e) /\ e.id = <<p, e.body>>
        BY <3>1, <3>2 DEF Indexed, PlainFile
      <3> QED BY <2>2, <2>4, <3>1, <3>3 DEF PlainFile, Plain
    <2> QED BY <2>1, <2>5, <2>6, <2>7
  <1>9. CASE EndCommand
    BY <1>9 DEF EndCommand, PlainFile, Plain
  <1>10. CASE UNCHANGED derivedVars
    BY <1>10 DEF derivedVars, PlainFile, Plain
  <1> QED BY <1>2, <1>3, <1>4, <1>5, <1>6, <1>7, <1>8, <1>9, <1>10 DEF DerivedNext

(* pipeline.py, cli.py and extracted.py each say that a document is updated in place.  Of
   a file that has no note, and no blank lines at its end, that is true, in any order of
   ingestion, re-enrich, backfill, reindex and rebuild. *)
THEOREM NotelessInPlace ==
  ASSUME NEW p \in Files
  PROVE  DerivedSpec /\ []Noteless(p) => []OneDocumentOf(p)
  <1>1. DerivedInit => PlainFile(p)
    BY DEF DerivedInit, PlainFile
  <1>2. DerivedInv /\ PlainFile(p) /\ Noteless(p) /\ Noteless(p)' /\ [DerivedNext]_derivedVars
        => PlainFile(p)'
    BY PlainStep
  <1>3. ASSUME DerivedInv, PlainFile(p) PROVE OneDocumentOf(p)
    <2> SUFFICES ASSUME NEW d \in documents, NEW e \in documents, d.path = p, e.path = p,
                        d.body.text = e.body.text
                 PROVE  d = e
      BY DEF OneDocumentOf
    <2>1. d \in IndexDocuments /\ e \in IndexDocuments
      BY <1>3 DEF DerivedInv, DerivedTyped
    <2>2. d.body = e.body
      BY <1>3, <2>1 DEF IndexDocuments, Bodies, PlainFile, Plain
    <2> QED BY <1>3, <2>1, <2>2 DEF IndexDocuments, PlainFile, Plain
  <1> QED BY <1>1, <1>2, <1>3, DerivedInvariance, PTL DEF DerivedSpec

(* So the claim holds of the whole index as long as casework writes no notes.  The run
   derived_in_place shows what the first note does to it. *)
THEOREM InPlaceWithoutNotes ==
  ASSUME Notes = {}, Ragged = {}
  PROVE  DerivedSpec => []OneDocumentPerText
  <1> DEFINE AllPlain == \A p \in Files : PlainFile(p)
             AllNoteless == \A p \in Files : Noteless(p)
  <1>1. DerivedInit => AllPlain
    BY DEF DerivedInit, PlainFile
  <1>2. DerivedInv => AllNoteless
    BY DEF DerivedInv, DerivedTyped, Settings, StoredNotes, Noteless
  <1>3. DerivedInv /\ AllPlain /\ AllNoteless /\ AllNoteless' /\ [DerivedNext]_derivedVars
        => AllPlain'
    BY PlainStep
  <1>4. ASSUME DerivedInv, AllPlain PROVE OneDocumentPerText
    <2> SUFFICES ASSUME NEW d \in documents, NEW e \in documents, d.path = e.path,
                        d.body.text = e.body.text
                 PROVE  d = e
      BY DEF OneDocumentPerText
    <2>1. d \in IndexDocuments /\ e \in IndexDocuments
      BY <1>4 DEF DerivedInv, DerivedTyped
    <2>2. Plain(d) /\ Plain(e) /\ d.id = <<d.path, d.body>> /\ e.id = <<e.path, e.body>>
      BY <1>4, <2>1 DEF IndexDocuments, PlainFile
    <2>3. d.body = e.body
      BY <2>1, <2>2 DEF IndexDocuments, Bodies, Plain
    <2> QED BY <2>1, <2>2, <2>3 DEF IndexDocuments, Plain
  <1> HIDE DEF AllPlain, AllNoteless
  <1> QED BY <1>1, <1>2, <1>3, <1>4, DerivedInvariance, PTL DEF DerivedSpec
=============================================================================
