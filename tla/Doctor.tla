-------------------------------- MODULE Doctor --------------------------------
(***************************************************************************)
(* The board of doctor (observability/health.py): five probes on threads,  *)
(* while what they look at comes and goes, and a board that does not wait  *)
(* for them longer than its timeout.  Latencies and wording are left out.  *)
(***************************************************************************)
EXTENDS Naturals

CONSTANTS HasKey,    \* is OPENAI_API_KEY configured?
          MaxFlips   \* bound: changes of what the probes look at

ASSUME DoctorAssumption == HasKey \in BOOLEAN /\ MaxFlips \in Nat

(* PROBE_ORDER, and what the probes look at: the cluster, the required indices in it, the
   services, and whether the newest event is in the window.  The watcher itself runs on
   another host and is only inferred from the events. *)
Probes == {"elasticsearch", "docling", "enricher", "mcp_server", "live_index_watcher"}
RequiredIndices == {"documents", "events"}
Sights == {"cluster", "docling", "enricher", "mcp_server", "fresh"} \cup RequiredIndices

VARIABLES
    up,        \* the sights that are as they should be
    answer,    \* what each probe of the run under way has returned; or "running", and
               \* for elasticsearch also the index it counts next
    board,     \* the statuses on the board, by component; empty while the run lasts
    wasUp,     \* history: the sights that were up at some time of the run
    flips

doctorVars == <<up, answer, board, wasUp, flips>>

Statuses == {"UP", "DEGRADED", "DOWN"}

(* worst_status, and the exit code of doctor. *)
Overall(b) ==
    IF \E p \in DOMAIN b : b[p] = "DOWN" THEN "DOWN"
    ELSE IF \E p \in DOMAIN b : b[p] = "DEGRADED" THEN "DEGRADED" ELSE "UP"
DoctorExit == IF Overall(board) = "UP" THEN 0 ELSE 1

UpIf(condition) == IF condition THEN "UP" ELSE "DOWN"

(* _index_count is not None. *)
Readable(index) == {"cluster", index} \subseteq up

(* probe_docling, probe_enricher and probe_mcp_server: one call each. *)
ServiceSeen(p) == IF p = "enricher" /\ ~HasKey THEN "DEGRADED" ELSE UpIf(p \in up)

(* probe_live_index_watcher: the newest event, if it can be read. *)
WatcherSeen == UpIf(Readable("events") /\ "fresh" \in up)

(* The end of run_doctor: a probe that raised, or has not returned, is DOWN. *)
BoardOfDone(answers) ==
    [p \in {q \in Probes : answers[q] \in Statuses \cup {"raised"}} |->
        IF answers[p] \in Statuses THEN answers[p] ELSE "DOWN"]
Board(answers) == [p \in Probes |-> IF answers[p] \in Statuses THEN answers[p] ELSE "DOWN"]

-----------------------------------------------------------------------------
NoAnswer == [p \in Probes |-> "running"]

DoctorInit ==
    /\ up \in SUBSET Sights
    /\ answer = NoAnswer /\ board = <<>>
    /\ wasUp = up /\ flips = 0

(* A service comes or goes, an index is dropped or made, an event arrives or gets old. *)
Flip ==
    /\ flips < MaxFlips /\ flips' = flips + 1
    /\ \E s \in Sights : up' = IF s \in up THEN up \ {s} ELSE up \cup {s}
    /\ wasUp' = wasUp \cup up'
    /\ UNCHANGED <<answer, board>>

Returns(p, status) ==
    /\ board = <<>>
    /\ answer' = [answer EXCEPT ![p] = status]
    /\ UNCHANGED <<up, board, wasUp, flips>>

(* probe_elasticsearch asks for the health of the cluster, then counts one index after
   the other.  A missing one makes it DEGRADED whatever the others are, and so does a
   cluster that goes away between the calls. *)
AskCluster ==
    /\ answer["elasticsearch"] = "running"
    /\ Returns("elasticsearch", IF "cluster" \in up THEN "documents" ELSE "DOWN")

CountIndex ==
    \E index \in RequiredIndices :
        /\ answer["elasticsearch"] = index
        /\ Returns("elasticsearch", IF ~Readable(index) THEN "DEGRADED"
                                    ELSE IF index = "documents" THEN "events" ELSE "UP")

ProbeService ==
    \E p \in {"docling", "enricher", "mcp_server"} :
        answer[p] = "running" /\ Returns(p, ServiceSeen(p))

ProbeWatcher ==
    /\ answer["live_index_watcher"] = "running"
    /\ Returns("live_index_watcher", WatcherSeen)

(* Without a client for Elasticsearch the two probes that need one raise. *)
NoClient ==
    \E p \in {"elasticsearch", "live_index_watcher"} :
        answer[p] = "running" /\ Returns(p, "raised")

(* All probes are in, or the board timeout is over. *)
Assemble ==
    /\ board = <<>>
    /\ board' = Board(answer)
    /\ UNCHANGED <<up, answer, wasUp, flips>>

DoctorAgain ==
    /\ board # <<>>
    /\ board' = <<>> /\ answer' = NoAnswer
    /\ wasUp' = up
    /\ UNCHANGED <<up, flips>>

DoctorNext ==
    \/ Flip
    \/ AskCluster \/ CountIndex \/ ProbeService \/ ProbeWatcher \/ NoClient
    \/ Assemble
    \/ DoctorAgain

DoctorSpec == DoctorInit /\ [][DoctorNext]_doctorVars

-----------------------------------------------------------------------------
(* doctor exits 0 only if everything it looks at was as it should be at some time of
   the run: what is down or missing throughout, a probe that hangs and one that breaks
   are never passed over, although the probes ask at different times and the board
   does not wait for them. *)
GreenBoardIsTrue ==
    board # <<>> /\ DoctorExit = 0 => HasKey /\ Sights \subseteq wasUp

=============================================================================
