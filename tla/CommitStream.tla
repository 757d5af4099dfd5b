---------------------------- MODULE CommitStream ----------------------------
(***************************************************************************)
(* The trigger path of the ingest service: the git hook publishes one      *)
(* message per commit on a JetStream stream, a durable pull consumer       *)
(* delivers it at least once and at most MaxDeliver times, and the         *)
(* IngestProcessor (ingest/processor.py) answers every delivery with ack,  *)
(* nak or term, writing a dead-letter event when it gives up.              *)
(*                                                                         *)
(* The broker is external: its actions are what messaging/client.py asks   *)
(* of it (explicit ack, max_deliver, ack wait).  What process_commit does  *)
(* to one commit is the subject of module Ingest; here an attempt ends     *)
(* with the set of files that failed, or with an exception.  The counters  *)
(* and timestamps GET /health shows are left out.                          *)
(***************************************************************************)
EXTENDS Naturals, Sequences, FiniteSets

CONSTANTS Msgs,        \* entries of the stream, one per accepted publication
          Poison,      \* those whose payload carries no commit sha
          Files,       \* the files an attempt can report as failed
          MaxDeliver,  \* the consumer's max_deliver
          Batch,       \* messages fetched per pull
          Faults,      \* what may fail: see FaultKinds
          MaxFaults    \* bound: how many times

(* "crash": the process dies; "delivery": a message the broker sends does not
   arrive; "answer": an ack, nak or term is lost; "raise": it raises;
   "event": the event sink refuses an event. *)
FaultKinds == {"crash", "delivery", "answer", "raise", "event"}

(* What a dead-letter event names when it names no file. *)
Commitwide == "commit"
PoisonNote == "poison"

ASSUME ConstantsAssumption ==
    /\ IsFiniteSet(Msgs)
    /\ Poison \subseteq Msgs
    /\ Files \cap {Commitwide, PoisonNote} = {}
    /\ MaxDeliver \in Nat \ {0}
    /\ Batch \in Nat \ {0}
    /\ Faults \subseteq FaultKinds
    /\ MaxFaults \in Nat

VARIABLES
    entry,    \* entry[m]: the broker's view of message m
    num,      \* num[m]: how many times the broker has delivered m
    batch,    \* the copies fetched and not answered yet, in order
    pc,       \* what the processor is doing with Head(batch)
    outcome,  \* how the attempt in hand ended
    dlq,      \* dead-letter events in the event index
    faults,   \* faults injected so far
    clean,    \* history: messages one of whose attempts had no failure
    last      \* history: last[m] is how m's latest attempt ended

vars == <<entry, num, batch, pc, outcome, dlq, faults, clean, last>>

broker == <<entry, num>>
local == <<batch, pc, outcome>>
history == <<clean, last>>

(* "absent": not published; "ready": to be delivered (again); "pending":
   delivered and awaiting an answer; the rest are final. *)
Final == {"acked", "termed", "exhausted"}
Entry == {"absent", "ready", "pending"} \cup Final

Copy == [msg : Msgs, delivered : 1..MaxDeliver]

(* A CommitResult with its failed files, or the exception that escaped. *)
Result == [raised : BOOLEAN, failed : SUBSET Files]
NoResult == [raised |-> FALSE, failed |-> {}]
Outcomes == {r \in Result : r.raised => r.failed = {}}

Event == Msgs \X (Files \cup {Commitwide, PoisonNote})

TypeOK ==
    /\ entry \in [Msgs -> Entry]
    /\ num \in [Msgs -> 0..MaxDeliver]
    /\ batch \in Seq(Copy)
    /\ pc \in {"fetch", "handle", "working", "settle", "emit", "down"}
    /\ outcome \in Result
    /\ dlq \subseteq Event
    /\ faults \in 0..MaxFaults
    /\ clean \subseteq Msgs
    /\ last \in [Msgs -> Result]

Init ==
    /\ entry = [m \in Msgs |-> "absent"]
    /\ num = [m \in Msgs |-> 0]
    /\ batch = <<>>
    /\ pc = "fetch"
    /\ outcome = NoResult
    /\ dlq = {}
    /\ faults = 0
    /\ clean = {}
    /\ last = [m \in Msgs |-> NoResult]

-----------------------------------------------------------------------------
(* The broker *)

(* The hook's publication is accepted.  A publication that fails, or that the
   dedup window absorbs, leaves no entry: the hook exits 0 either way. *)
Publish(m) ==
    /\ entry[m] = "absent"
    /\ entry' = [entry EXCEPT ![m] = "ready"]
    /\ UNCHANGED <<num, local, dlq, faults, history>>

DeliverableForever(m) == entry[m] = "ready"
Deliverable(m) == entry[m] = "ready" /\ num[m] < MaxDeliver

Fault(kind) == kind \in Faults /\ faults < MaxFaults /\ faults' = faults + 1
NoFault == UNCHANGED faults

(* No answer within the ack wait (or the copy is held by a dead process): the
   message goes back to the redelivery queue. *)
AckWaitExpires(m) ==
    /\ entry[m] = "pending"
    /\ entry' = [entry EXCEPT ![m] = "ready"]
    /\ UNCHANGED <<num, local, dlq, faults, history>>

(* The server drops a message it has already delivered max_deliver times. *)
Exhaust(m) ==
    /\ entry[m] = "ready" /\ num[m] >= MaxDeliver
    /\ entry' = [entry EXCEPT ![m] = "exhausted"]
    /\ UNCHANGED <<num, local, dlq, faults, history>>

(* A delivery the client never sees: the connection dropped under it. *)
DeliveryLost(m) ==
    /\ pc = "fetch" /\ Deliverable(m)
    /\ Fault("delivery")
    /\ entry' = [entry EXCEPT ![m] = "pending"]
    /\ num' = [num EXCEPT ![m] = @ + 1]
    /\ UNCHANGED <<local, dlq, history>>

-----------------------------------------------------------------------------
(* The processor *)

Pulls == {s \in UNION {[1..n -> {m \in Msgs : Deliverable(m)}] : n \in 1..Batch} :
              \A i, j \in DOMAIN s : s[i] = s[j] => i = j}

(* The count _num_delivered will read from the metadata of a copy of m. *)
DeliveredUnknown(m) == 1
Delivered(m) == num[m] + 1

(* A pull starts only when the previous batch has been answered. *)
ReadyToFetch == pc = "fetch" /\ batch = <<>>

Fetch ==
    /\ ReadyToFetch
    /\ \E s \in Pulls :
         LET got == {s[i] : i \in DOMAIN s} IN
         /\ entry' = [m \in Msgs |-> IF m \in got THEN "pending" ELSE entry[m]]
         /\ num' = [m \in Msgs |-> IF m \in got THEN num[m] + 1 ELSE num[m]]
         /\ batch' = [i \in DOMAIN s |->
                        [msg |-> s[i], delivered |-> Delivered(s[i])]]
    /\ pc' = "handle"
    /\ UNCHANGED <<outcome, dlq, faults, history>>

Current == Head(batch)

(* A commit sha was parsed: process_commit runs on a worker thread. *)
StartWork ==
    /\ pc = "handle" /\ Current.msg \notin Poison
    /\ pc' = "working"
    /\ UNCHANGED <<broker, batch, outcome, dlq, faults, history>>

SucceededUnlessFiles(o) == o.failed = {}
Succeeded(o) == ~o.raised /\ o.failed = {}

FinishWork(o) ==
    /\ pc = "working"
    /\ pc' = "settle"
    /\ outcome' = o
    /\ clean' = IF ~o.raised /\ o.failed = {} THEN clean \cup {Current.msg} ELSE clean
    /\ last' = [last EXCEPT ![Current.msg] = o]
    /\ UNCHANGED <<broker, batch, dlq, faults>>

LastDeliveryEarly(c) == c.delivered >= MaxDeliver - 1
LastDeliveryLate(c) == c.delivered > MaxDeliver
LastDelivery(c) == c.delivered >= MaxDeliver

(* What _handle asks of the broker for the copy in hand. *)
VerdictAcksPoison ==
    IF pc = "handle" THEN "ack"
    ELSE IF Succeeded(outcome) THEN "ack"
    ELSE IF LastDelivery(Current) THEN "term" ELSE "nak"
Verdict ==
    IF pc = "handle" THEN "term"
    ELSE IF Succeeded(outcome) THEN "ack"
    ELSE IF LastDelivery(Current) THEN "term" ELSE "nak"

(* The broker heeds an answer only for a message it still tracks. *)
Tracked(m) == entry[m] = "pending" \/ (entry[m] = "ready" /\ num[m] > 0)

Answer(m, v) ==
    IF ~Tracked(m) THEN entry[m]
    ELSE CASE v = "ack" -> "acked" [] v = "term" -> "termed" [] OTHER -> "ready"

(* The next copy, or the next pull. *)
Advance ==
    /\ batch' = Tail(batch)
    /\ pc' = IF Tail(batch) = <<>> THEN "fetch" ELSE "handle"
    /\ outcome' = NoResult

(* _handle has an answer to give: a poison payload, or a finished attempt. *)
Answering == \/ pc = "handle" /\ Current.msg \in Poison
             \/ pc = "settle"

(* The answer is sent (Delivered) or lost on the way; the client sees no
   difference.  term is followed by the dead-letter events. *)
Settle(delivered) ==
    /\ Answering
    /\ IF delivered
       THEN /\ entry' = [entry EXCEPT ![Current.msg] = Answer(Current.msg, Verdict)]
            /\ NoFault
       ELSE entry' = entry /\ Fault("answer")
    /\ IF Verdict = "term"
       THEN pc' = "emit" /\ UNCHANGED <<batch, outcome>>
       ELSE Advance
    /\ UNCHANGED <<num, dlq, history>>

(* ack, nak or term raises: the exception leaves process_batch, the rest of
   the batch is forgotten and run_forever goes on with the next pull. *)
SettleRaisesEndsLoop ==
    /\ Answering
    /\ Fault("raise")
    /\ batch' = <<>> /\ pc' = "stopped" /\ outcome' = NoResult
    /\ UNCHANGED <<broker, dlq, history>>
SettleRaises ==
    /\ Answering
    /\ Fault("raise")
    /\ batch' = <<>> /\ pc' = "fetch" /\ outcome' = NoResult
    /\ UNCHANGED <<broker, dlq, history>>

(* _emit_poison, or _emit_dlq: one event per failed file, one for the commit
   when no file is to blame. *)
DeadLetters(m, o) ==
    IF m \in Poison THEN {<<m, PoisonNote>>}
    ELSE IF o.failed = {} THEN {<<m, Commitwide>>}
    ELSE {m} \X o.failed

(* safe_emit swallows a failure of the event sink, event by event. *)
Emit ==
    /\ pc = "emit"
    /\ \E lost \in SUBSET DeadLetters(Current.msg, outcome) :
         /\ dlq' = dlq \cup (DeadLetters(Current.msg, outcome) \ lost)
         /\ IF lost = {} THEN NoFault ELSE Fault("event")
    /\ Advance
    /\ UNCHANGED <<broker, history>>

(* The process dies (or is stopped): its batch goes with it. *)
Crash ==
    /\ pc # "down"
    /\ Fault("crash")
    /\ pc' = "down" /\ batch' = <<>> /\ outcome' = NoResult
    /\ UNCHANGED <<broker, dlq, history>>

Restart ==
    /\ pc = "down"
    /\ pc' = "fetch"
    /\ UNCHANGED <<broker, batch, outcome, dlq, faults, history>>

-----------------------------------------------------------------------------
Processor ==
    \/ Fetch
    \/ StartWork
    \/ \E o \in Outcomes : FinishWork(o)
    \/ Settle(TRUE)
    \/ Emit
    \/ Restart

Broker(m) == AckWaitExpires(m) \/ Exhaust(m)

Next ==
    \/ Processor
    \/ \E m \in Msgs : Publish(m) \/ Broker(m) \/ DeliveryLost(m)
    \/ Settle(FALSE)
    \/ SettleRaises
    \/ Crash

(* The loop is driven by asyncio and never blocks for ever: fetch times out,
   process_commit is bounded by Docling's deadline, a stopped container is
   restarted.  The broker's timers run. Faults and publications are not due. *)
Fairness == WF_vars(Processor) /\ \A m \in Msgs : WF_vars(Broker(m))

Spec == Init /\ [][Next]_vars /\ Fairness

-----------------------------------------------------------------------------
(* Properties *)

HasDeadLetter(m) == \E e \in dlq : e[1] = m

(* A message is acked only if one of its attempts left no failed file and
   raised nothing: process_batch never acks on the strength of another
   message, of an abandoned batch or of a copy from before a crash. *)
AckedOnlyWhenClean == \A m \in Msgs : entry[m] = "acked" => m \in clean

(* The delivery count a copy carries is the broker's own, no message is in
   the batch twice, and no copy belongs to a message already acked or
   terminated, so the max_deliver decision of _handle is never taken on a
   stale count and no settled commit is ingested again. *)
CopiesAreCurrent ==
    \A i \in DOMAIN batch :
        /\ batch[i].delivered = num[batch[i].msg]
        /\ entry[batch[i].msg] \in {"acked", "termed"} => i = 1 /\ pc = "emit"
        /\ \A j \in DOMAIN batch : batch[i].msg = batch[j].msg => i = j

(* A message is terminated, and a dead-letter event written, only for a
   payload without a sha or at the last permitted delivery; an event that
   names a file names one that failed in that very attempt. *)
DeadLettersAreTrue ==
    /\ \A m \in Msgs : entry[m] = "termed" => m \in Poison \/ num[m] = MaxDeliver
    /\ \A e \in dlq :
         LET m == e[1] IN
         IF e[2] = PoisonNote THEN m \in Poison
         ELSE /\ num[m] = MaxDeliver
              /\ IF e[2] = Commitwide THEN last[m].raised ELSE e[2] \in last[m].failed

(* Every published message ends acked, terminated or exhausted, whatever is
   lost and however often the process dies within the fault bound. *)
EveryTriggerSettles ==
    \A m \in Msgs : (entry[m] # "absent") ~> (entry[m] \in Final)

(* As long as nothing crashes and no call to the broker or the event sink
   fails, every published message has a clean attempt or a dead letter, even
   when the ack wait runs out under a slow attempt. *)
AnsweredUnlessFault ==
    \A m \in Msgs : (entry[m] # "absent")
                        ~> (m \in clean \/ HasDeadLetter(m) \/ faults > 0)

(* The trigger path implements the lifecycle of a trigger: no step acks
   without a clean try, gives up early, tries too often or reopens a message
   that was closed. *)
PhaseOf(m) ==
    CASE entry[m] = "absent" -> "unsent"
      [] entry[m] = "acked" -> "closed"
      [] entry[m] = "termed" -> "buried"
      [] entry[m] = "exhausted" -> "dropped"
      [] OTHER -> "open"

Lifecycle == INSTANCE TriggerLifecycle WITH
    MaxTries <- MaxDeliver,
    phase <- [m \in Msgs |-> PhaseOf(m)],
    tries <- num,
    done <- clean

ImplementsLifecycle == Lifecycle!LifecycleSpec

(* The module comment of processor.py: a crash mid-work redelivers the commit
   rather than losing it, and once max_deliver is reached a dead-letter event
   is emitted (FR-009).  So a message the broker gives up on, and no copy of
   which is still in hand, was ingested or has its event. *)
GivenUpOnlyWithDeadLetter ==
    \A m \in Msgs :
        entry[m] = "exhausted" /\ (\A i \in DOMAIN batch : batch[i].msg # m)
            => m \in clean \/ HasDeadLetter(m)
=============================================================================
