------------------------------- MODULE Alerting -------------------------------
(***************************************************************************)
(* The exit code of alert (observability/alerts.py), on which a scheduler  *)
(* notifies.  It is made of the answers of queries that are sent one after *)
(* the other, and each of which counts as nothing when it raises           *)
(* (observability/state.py).                                               *)
(***************************************************************************)
EXTENDS Naturals, Sequences

CONSTANTS Facts,       \* what the indices and the tree may hold: records [docs, events,
                       \* failed, recent (numbers), skipped, incident, missing]
          Manifested,  \* is a manifest given (--manifest)?
          OnSkipped,   \* --alert-on-skipped
          MaxFailures  \* --max-failures

ASSUME AlertingAssumption ==
    /\ Facts \subseteq [docs : Nat, events : Nat, failed : Nat, recent : Nat,
                        skipped : BOOLEAN, incident : BOOLEAN, missing : BOOLEAN]
    /\ MaxFailures \in Nat /\ Manifested \in BOOLEAN /\ OnSkipped \in BOOLEAN

VARIABLES
    facts,   \* what the indices hold
    sent,    \* the number of queries made
    failing  \* those that raised

alertVars == <<facts, sent, failing>>

(* The queries of aggregate that alert depends on, and the one of the Reconciler. *)
Queries == <<"docs", "stages", "recent", "exposures", "paths">>

Answered(q) == \E i \in 1..sent : Queries[i] = q /\ i \notin failing

Docs == IF Answered("docs") THEN facts.docs ELSE 0
Failed == IF Answered("stages") THEN facts.failed ELSE 0
Recent == IF Answered("recent") THEN facts.recent ELSE 0
Incident == Answered("exposures") /\ facts.incident

(* The four checks of aggregate; events_flowing is the one on the counts by stage. *)
HealthyWithoutEvents == Docs > 0 /\ Recent = 0 /\ ~Incident
Healthy ==
    /\ Docs > 0 /\ Recent = 0 /\ ~Incident
    /\ Answered("stages") /\ facts.events > 0

(* evaluate_alerts; the Reconciler does not catch, so that the command ends in a
   traceback. *)
Crashed == Manifested /\ \E i \in failing : Queries[i] = "paths"
Critical == Failed > MaxFailures \/ (Manifested /\ facts.missing)
Warning == ~Healthy \/ (OnSkipped /\ Answered("stages") /\ facts.skipped)

(* exit_code *)
AlertExit == IF Crashed THEN 1 ELSE IF Critical THEN 2 ELSE IF Warning THEN 1 ELSE 0

-----------------------------------------------------------------------------
AlertInit == facts \in Facts /\ sent = 0 /\ failing = {}

Query ==
    /\ sent < Len(Queries)
    /\ sent' = sent + 1
    /\ failing' \in {failing, failing \cup {sent'}}
    /\ UNCHANGED facts

AlertNext == Query

AlertSpec == AlertInit /\ [][AlertNext]_alertVars

-----------------------------------------------------------------------------
(* alert exits 0 only if there is nothing to tell: an outage of Elasticsearch, whichever
   of the queries it hits, is never all clear, and neither are more failures than
   allowed, documents that are missing or an index without documents or events.
   But a restricted document in the index, and recent failures that the allowance
   covers, are not heard when the one query for them fails. *)
AllClearIsTrue ==
    sent = Len(Queries) /\ AlertExit = 0 =>
        /\ facts.docs > 0 /\ facts.events > 0 /\ facts.failed <= MaxFailures
        /\ Manifested => ~facts.missing
        /\ facts.incident => ~Answered("exposures")
        /\ facts.recent > 0 => ~Answered("recent")
        /\ OnSkipped => ~facts.skipped

=============================================================================
