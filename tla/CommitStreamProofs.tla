-------------------------- MODULE CommitStreamProofs --------------------------
(***************************************************************************)
(* The safety of the trigger path for any number of messages, any batch    *)
(* size, any max_deliver and any faults.  IInv is inductive: the type      *)
(* invariant, the three invariants MCCommitStream checks, and the facts    *)
(* they rest on, which relate the copy in hand to the broker's record.     *)
(***************************************************************************)
EXTENDS CommitStream, TLAPS

Busy == {"handle", "working", "settle", "emit"}

(* There is a copy in hand exactly while the processor is busy; an attempt is
   made only for a message with a sha. *)
BatchShape ==
    /\ pc \in Busy <=> batch # <<>>
    /\ pc \in {"working", "settle"} => Current.msg \notin Poison

(* A finished attempt is the latest one of its message, and if nothing failed
   the message counts as clean; the processor is about to write dead letters
   only for poison or after a failed last delivery. *)
AttemptInHand ==
    /\ pc = "settle" =>
         /\ outcome = last[Current.msg] /\ outcome \in Outcomes
         /\ Succeeded(outcome) => Current.msg \in clean
    /\ pc = "emit" =>
         \/ Current.msg \in Poison
         \/ /\ outcome = last[Current.msg] /\ outcome \in Outcomes
            /\ ~Succeeded(outcome)
            /\ num[Current.msg] = MaxDeliver

(* What the broker's record says of deliveries: nothing is awaited or closed
   that was not delivered, and poison never counts as clean. *)
BrokerRecord ==
    /\ \A m \in Msgs : entry[m] = "absent" => num[m] = 0
    /\ \A m \in Msgs : entry[m] = "pending" => num[m] > 0
    /\ \A m \in Msgs : entry[m] = "exhausted" => num[m] = MaxDeliver
    /\ clean \cap Poison = {}

(* Once a commit has a dead letter no copy of it is left to work on. *)
NoCopyAfterDeadLetter ==
    \A e \in dlq : e[1] \notin Poison =>
        \A i \in DOMAIN batch : batch[i].msg # e[1]

IInv ==
    /\ TypeOK
    /\ AckedOnlyWhenClean
    /\ CopiesAreCurrent
    /\ DeadLettersAreTrue
    /\ BatchShape
    /\ AttemptInHand
    /\ BrokerRecord
    /\ NoCopyAfterDeadLetter

-----------------------------------------------------------------------------
(* Sequences of copies *)

(* The copy in hand is the first of the batch. *)
LEMMA CurrentIsFirst ==
    ASSUME TypeOK, batch # <<>>
    PROVE  /\ 1 \in DOMAIN batch
           /\ Current = batch[1]
           /\ Current \in Copy
           /\ Current.msg \in Msgs
           /\ Current.delivered \in 1..MaxDeliver
  <1>1. batch \in Seq(Copy) /\ Len(batch) \in Nat /\ Len(batch) # 0
    BY DEF TypeOK
  <1>2. 1 \in DOMAIN batch /\ Head(batch) = batch[1] /\ batch[1] \in Copy
    BY <1>1
  <1> QED
    BY <1>2 DEF Current, Copy

(* The processor between two attempts holds a well-formed result. *)
LEMMA NoResultIsResult == NoResult \in Result
  BY DEF NoResult, Result

(* Every copy in the batch is of a message of the stream. *)
LEMMA BatchOfMsgs ==
    ASSUME TypeOK, NEW i \in DOMAIN batch
    PROVE  batch[i] \in Copy /\ batch[i].msg \in Msgs
  <1>1. batch \in Seq(Copy)
    BY DEF TypeOK
  <1>2. batch[i] \in Copy
    BY <1>1
  <1> QED
    BY <1>2 DEF Copy

(* Advancing drops the copy in hand and keeps the others, one place nearer. *)
LEMMA AdvanceDropsCurrent ==
    ASSUME TypeOK, batch # <<>>, Advance
    PROVE  /\ batch' \in Seq(Copy)
           /\ \A i \in DOMAIN batch' :
                /\ i + 1 \in DOMAIN batch /\ i \in Nat \ {0}
                /\ batch'[i] = batch[i + 1]
           /\ pc' = "handle" \/ pc' = "fetch"
           /\ pc' = "handle" <=> batch' # <<>>
           /\ outcome' = NoResult
  <1>1. batch \in Seq(Copy) /\ Len(batch) \in Nat /\ Len(batch) # 0
    BY DEF TypeOK
  <1>2. /\ Tail(batch) \in Seq(Copy)
        /\ Len(Tail(batch)) = Len(batch) - 1
        /\ \A i \in 1..Len(Tail(batch)) : Tail(batch)[i] = batch[i + 1]
    BY <1>1
  <1>3. batch' = Tail(batch)
    BY DEF Advance
  <1>4. /\ DOMAIN batch' = 1..Len(batch')
        /\ DOMAIN batch = 1..Len(batch)
    BY <1>1, <1>2, <1>3
  <1> QED
    BY <1>1, <1>2, <1>3, <1>4 DEF Advance

-----------------------------------------------------------------------------
(* The initial state *)
LEMMA InitEstablishesIInv == Init => IInv
  <1> SUFFICES ASSUME Init PROVE IInv
    OBVIOUS
  <1>1. TypeOK
    BY ConstantsAssumption DEF Init, TypeOK, Entry, NoResult, Result
  <1>2. DOMAIN batch = {}
    BY DEF Init
  <1> QED
    BY <1>1, <1>2 DEF Init, IInv, AckedOnlyWhenClean, CopiesAreCurrent, DeadLettersAreTrue,
       BatchShape, AttemptInHand, BrokerRecord, NoCopyAfterDeadLetter, Busy

-----------------------------------------------------------------------------
(* The broker's own steps leave the processor alone. *)
LEMMA BrokerPreservesIInv ==
    ASSUME IInv, NEW m \in Msgs,
           Publish(m) \/ AckWaitExpires(m) \/ Exhaust(m)
    PROVE  IInv'
  <1>1. UNCHANGED <<num, batch, pc, outcome, dlq, faults, clean, last>>
    BY DEF Publish, AckWaitExpires, Exhaust, local, history
  <1>2. /\ entry' = [entry EXCEPT ![m] = entry'[m]]
        /\ entry'[m] \in {"ready", "exhausted"}
        /\ entry[m] \in {"absent", "pending", "ready"}
        /\ entry'[m] = "exhausted" => num[m] = MaxDeliver
    BY ConstantsAssumption DEF Publish, AckWaitExpires, Exhaust, IInv, TypeOK
  <1>3. TypeOK'
    BY <1>1, <1>2 DEF IInv, TypeOK, Entry, Final
  <1>4. AckedOnlyWhenClean'
    BY <1>1, <1>2 DEF IInv, TypeOK, AckedOnlyWhenClean
  <1>5. CopiesAreCurrent'
    <2>1. \A i \in DOMAIN batch :
            entry'[batch[i].msg] \in {"acked", "termed"} => entry[batch[i].msg] \in {"acked", "termed"}
      BY <1>2, BatchOfMsgs DEF IInv, TypeOK
    <2> QED
      BY <1>1, <2>1 DEF IInv, CopiesAreCurrent
  <1>6. DeadLettersAreTrue'
    BY <1>1, <1>2 DEF IInv, TypeOK, DeadLettersAreTrue
  <1>7. BatchShape' /\ AttemptInHand' /\ NoCopyAfterDeadLetter'
    BY <1>1 DEF IInv, BatchShape, AttemptInHand, NoCopyAfterDeadLetter, Current
  <1>8. BrokerRecord'
    BY <1>1, <1>2 DEF IInv, TypeOK, BrokerRecord
  <1> QED
    BY <1>3, <1>4, <1>5, <1>6, <1>7, <1>8 DEF IInv

(* A delivery that never arrives counts as one for the broker only. *)
LEMMA DeliveryLostPreservesIInv ==
    ASSUME IInv, NEW m \in Msgs, DeliveryLost(m)
    PROVE  IInv'
  <1>1. /\ UNCHANGED <<batch, pc, outcome, dlq, clean, last>>
        /\ entry' = [entry EXCEPT ![m] = "pending"]
        /\ num' = [num EXCEPT ![m] = @ + 1]
        /\ pc = "fetch" /\ entry[m] = "ready" /\ num[m] < MaxDeliver
        /\ faults < MaxFaults /\ faults' = faults + 1
    BY DEF DeliveryLost, Deliverable, Fault, local, history
  <1>2. batch = <<>>
    BY <1>1 DEF IInv, BatchShape, Busy
  <1>3. TypeOK'
    BY <1>1, ConstantsAssumption DEF IInv, TypeOK, Entry
  <1>4. AckedOnlyWhenClean'
    BY <1>1 DEF IInv, TypeOK, AckedOnlyWhenClean
  <1>5. CopiesAreCurrent' /\ NoCopyAfterDeadLetter'
    BY <1>1, <1>2 DEF CopiesAreCurrent, NoCopyAfterDeadLetter
  <1>6. DeadLettersAreTrue'
    BY <1>1 DEF IInv, TypeOK, DeadLettersAreTrue, Event
  <1>7. BatchShape' /\ AttemptInHand'
    BY <1>1, <1>2 DEF IInv, BatchShape, AttemptInHand, Current, Busy
  <1>8. BrokerRecord'
    BY <1>1, ConstantsAssumption DEF IInv, TypeOK, BrokerRecord
  <1> QED
    BY <1>3, <1>4, <1>5, <1>6, <1>7, <1>8 DEF IInv

(* A pull fills an empty batch with distinct messages, each stamped with the
   count the broker keeps; none of them can have a dead letter yet. *)
LEMMA FetchPreservesIInv ==
    ASSUME IInv, Fetch
    PROVE  IInv'
  <1>0. PICK s \in Pulls :
          /\ entry' = [m \in Msgs |->
                IF m \in {s[i] : i \in DOMAIN s} THEN "pending" ELSE entry[m]]
          /\ num' = [m \in Msgs |->
                IF m \in {s[i] : i \in DOMAIN s} THEN num[m] + 1 ELSE num[m]]
          /\ batch' = [i \in DOMAIN s |->
                          [msg |-> s[i], delivered |-> Delivered(s[i])]]
    BY DEF Fetch
  <1>1. PICK n \in 1..Batch :
          /\ s \in [1..n -> {m \in Msgs : Deliverable(m)}]
          /\ \A i, j \in DOMAIN s : s[i] = s[j] => i = j
    BY DEF Pulls
  <1>2. /\ UNCHANGED <<outcome, dlq, faults, clean, last>>
        /\ batch = <<>> /\ pc' = "handle"
    BY DEF Fetch, ReadyToFetch, history
  <1>3. \A i \in 1..n : s[i] \in Msgs /\ entry[s[i]] = "ready" /\ num[s[i]] < MaxDeliver
    BY <1>1 DEF Deliverable
  <1>4. DOMAIN s = 1..n /\ n \in Nat \ {0}
    BY <1>1, ConstantsAssumption
  <1>5. \A i \in 1..n : /\ batch'[i].msg = s[i]
                         /\ batch'[i].delivered = num[s[i]] + 1
                         /\ num'[s[i]] = num[s[i]] + 1
                         /\ entry'[s[i]] = "pending"
    BY <1>0, <1>3, <1>4 DEF Delivered
  <1>6. batch' \in Seq(Copy) /\ DOMAIN batch' = 1..n /\ batch' # <<>>
    <2>1. \A i \in 1..n : [msg |-> s[i], delivered |-> Delivered(s[i])] \in Copy
      BY <1>3, ConstantsAssumption DEF IInv, TypeOK, Copy, Delivered
    <2>2. batch' \in [1..n -> Copy]
      BY <2>1, <1>0, <1>4
    <2> QED
      BY <2>2, <1>4
  <1>7. \A m \in Msgs :
          \/ /\ entry[m] = "ready" /\ entry'[m] = "pending"
             /\ num[m] < MaxDeliver /\ num'[m] = num[m] + 1
          \/ /\ entry'[m] = entry[m] /\ num'[m] = num[m]
    BY <1>0, <1>3, <1>4
  <1>8. TypeOK'
    <2>1. entry' \in [Msgs -> Entry] /\ num' \in [Msgs -> 0..MaxDeliver]
      <3>1. \A m \in Msgs : entry'[m] \in Entry /\ num'[m] \in 0..MaxDeliver
        BY <1>7, ConstantsAssumption DEF IInv, TypeOK, Entry
      <3>2. /\ entry' = [m \in Msgs |-> entry'[m]]
            /\ num' = [m \in Msgs |-> num'[m]]
        BY <1>0
      <3> QED
        BY <3>1, <3>2
    <2> QED
      BY <2>1, <1>2, <1>6 DEF IInv, TypeOK
  <1>9. AckedOnlyWhenClean'
    BY <1>2, <1>7 DEF IInv, AckedOnlyWhenClean
  <1>10. CopiesAreCurrent'
    BY <1>1, <1>4, <1>5, <1>6 DEF CopiesAreCurrent
  <1>11. DeadLettersAreTrue'
    <2>1. \A m \in Msgs : num[m] = MaxDeliver => num'[m] = MaxDeliver
      BY <1>7, ConstantsAssumption DEF IInv, TypeOK
    <2>2. \A e \in dlq : e[1] \in Msgs
      BY DEF IInv, TypeOK, Event
    <2> QED
      BY <1>2, <1>7, <2>1, <2>2 DEF IInv, DeadLettersAreTrue
  <1>12. NoCopyAfterDeadLetter'
    <2>1. \A e \in dlq : e[1] \notin Poison => num[e[1]] = MaxDeliver
      BY DEF IInv, DeadLettersAreTrue
    <2> QED
      BY <1>2, <1>3, <1>5, <1>6, <2>1, ConstantsAssumption DEF NoCopyAfterDeadLetter
  <1>13. BatchShape' /\ AttemptInHand'
    BY <1>2, <1>6 DEF BatchShape, AttemptInHand, Busy
  <1>14. BrokerRecord'
    BY <1>2, <1>7, ConstantsAssumption DEF IInv, TypeOK, BrokerRecord
  <1> QED
    BY <1>8, <1>9, <1>10, <1>11, <1>12, <1>13, <1>14 DEF IInv

(* Handing the copy to process_commit. *)
LEMMA StartWorkPreservesIInv ==
    ASSUME IInv, StartWork
    PROVE  IInv'
  <1>1. /\ UNCHANGED <<entry, num, batch, outcome, dlq, faults, clean, last>>
        /\ pc = "handle" /\ pc' = "working" /\ Current.msg \notin Poison
    BY DEF StartWork, broker, history
  <1>2. TypeOK'
    BY <1>1 DEF IInv, TypeOK
  <1>3. AckedOnlyWhenClean' /\ DeadLettersAreTrue' /\ BrokerRecord' /\ NoCopyAfterDeadLetter'
    BY <1>1 DEF IInv, AckedOnlyWhenClean, DeadLettersAreTrue, BrokerRecord, NoCopyAfterDeadLetter
  <1>4. CopiesAreCurrent'
    BY <1>1 DEF IInv, CopiesAreCurrent
  <1>5. BatchShape' /\ AttemptInHand'
    BY <1>1 DEF IInv, BatchShape, AttemptInHand, Busy, Current
  <1> QED
    BY <1>2, <1>3, <1>4, <1>5 DEF IInv

(* The attempt ends.  Its message has no dead letter yet, so recording how it
   ended falsifies none. *)
LEMMA FinishWorkPreservesIInv ==
    ASSUME IInv, NEW o \in Outcomes, FinishWork(o)
    PROVE  IInv'
  <1>1. /\ UNCHANGED <<entry, num, batch, dlq, faults>>
        /\ pc = "working" /\ pc' = "settle" /\ outcome' = o
        /\ clean' = IF Succeeded(o) THEN clean \cup {Current.msg} ELSE clean
        /\ last' = [last EXCEPT ![Current.msg] = o]
    BY DEF FinishWork, broker, Succeeded
  <1>2. /\ batch # <<>> /\ Current.msg \in Msgs \ Poison
        /\ 1 \in DOMAIN batch /\ Current = batch[1] /\ Current' = Current
    <2>1. batch # <<>> /\ Current.msg \notin Poison
      BY <1>1 DEF IInv, BatchShape, Busy
    <2> QED
      BY <2>1, <1>1, CurrentIsFirst DEF IInv, Current
  <1>3. o \in Result /\ last'[Current.msg] = o
    BY <1>1, <1>2 DEF Outcomes, IInv, TypeOK
  <1>4. TypeOK'
    BY <1>1, <1>2, <1>3 DEF IInv, TypeOK
  <1>5. AckedOnlyWhenClean'
    BY <1>1 DEF IInv, AckedOnlyWhenClean
  <1>6. CopiesAreCurrent'
    BY <1>1 DEF IInv, CopiesAreCurrent
  <1>7. NoCopyAfterDeadLetter'
    BY <1>1 DEF IInv, NoCopyAfterDeadLetter
  <1>8. DeadLettersAreTrue'
    <2>2. \A e \in dlq : e[1] # Current.msg
      BY <1>2 DEF IInv, NoCopyAfterDeadLetter
    <2>3. \A e \in dlq : last'[e[1]] = last[e[1]]
      BY <1>1, <2>2 DEF IInv, TypeOK, Event
    <2> QED
      BY <1>1, <2>3 DEF IInv, DeadLettersAreTrue
  <1>9. BatchShape' /\ AttemptInHand'
    BY <1>1, <1>2, <1>3 DEF IInv, BatchShape, AttemptInHand, Busy
  <1>10. BrokerRecord'
    BY <1>1, <1>2 DEF IInv, BrokerRecord
  <1> QED
    BY <1>4, <1>5, <1>6, <1>7, <1>8, <1>9, <1>10 DEF IInv

(* Whatever empties the batch leaves nothing to be stale. *)
LEMMA AbandonPreservesIInv ==
    ASSUME IInv, SettleRaises \/ Crash \/ Restart
    PROVE  IInv'
  <1>1. /\ UNCHANGED <<entry, num, dlq, clean, last>>
        /\ batch' = <<>> /\ pc' \in {"fetch", "down"}
        /\ outcome' \in {NoResult, outcome}
        /\ faults' \in {faults, faults + 1} /\ (faults' = faults \/ faults < MaxFaults)
    <2>1. pc = "down" => batch = <<>>
      BY DEF IInv, BatchShape, Busy
    <2> QED
      BY <2>1 DEF SettleRaises, Crash, Restart, Fault, broker, history
  <1>2. TypeOK'
    <2>1. faults' \in 0..MaxFaults
      BY <1>1, ConstantsAssumption DEF IInv, TypeOK
    <2>2. outcome' \in Result
      BY <1>1, NoResultIsResult DEF IInv, TypeOK
    <2>3. batch' \in Seq(Copy)
      BY <1>1
    <2> QED
      BY <1>1, <2>1, <2>2, <2>3 DEF IInv, TypeOK
  <1>3. AckedOnlyWhenClean' /\ DeadLettersAreTrue' /\ BrokerRecord'
    BY <1>1 DEF IInv, AckedOnlyWhenClean, DeadLettersAreTrue, BrokerRecord
  <1>4. DOMAIN batch' = {}
    BY <1>1
  <1>5. CopiesAreCurrent' /\ NoCopyAfterDeadLetter'
    BY <1>4 DEF CopiesAreCurrent, NoCopyAfterDeadLetter
  <1>6. BatchShape' /\ AttemptInHand'
    BY <1>1 DEF BatchShape, AttemptInHand, Busy
  <1> QED
    BY <1>2, <1>3, <1>5, <1>6 DEF IInv

(* Dropping the copy in hand keeps every fact about the other copies. *)
LEMMA AdvancePreserves ==
    ASSUME IInv, batch # <<>>, Advance, UNCHANGED num,
           NEW A \in SUBSET Msgs, A \subseteq {Current.msg},
           \A m \in Msgs : entry'[m] \in {"acked", "termed"} =>
               entry[m] \in {"acked", "termed"} \/ m \in A,
           \A e \in dlq' : e \in dlq \/ e[1] \in Poison \/ e[1] = Current.msg
    PROVE  /\ batch' \in Seq(Copy)
           /\ pc' \in {"fetch", "handle"}
           /\ outcome' \in Result
           /\ CopiesAreCurrent'
           /\ BatchShape'
           /\ AttemptInHand'
           /\ NoCopyAfterDeadLetter'
  <1> USE DEF IInv
  <1>1. /\ batch' \in Seq(Copy)
        /\ \A i \in DOMAIN batch' :
             /\ i + 1 \in DOMAIN batch /\ i \in Nat \ {0}
             /\ batch'[i] = batch[i + 1]
        /\ pc' = "handle" \/ pc' = "fetch"
        /\ pc' = "handle" <=> batch' # <<>>
        /\ outcome' = NoResult
    BY AdvanceDropsCurrent
  <1>2. 1 \in DOMAIN batch /\ Current = batch[1]
    BY CurrentIsFirst
  <1>3. \A i \in DOMAIN batch' : batch'[i].msg \in Msgs /\ batch'[i].msg # Current.msg
    <2> TAKE i \in DOMAIN batch'
    <2>1. i + 1 \in DOMAIN batch /\ i + 1 # 1 /\ batch'[i] = batch[i + 1]
      BY <1>1
    <2> QED
      BY <2>1, <1>2, BatchOfMsgs DEF CopiesAreCurrent
  <1>4. CopiesAreCurrent'
    <2> SUFFICES ASSUME NEW i \in DOMAIN batch'
                 PROVE  /\ batch'[i].delivered = num[batch'[i].msg]
                        /\ entry'[batch'[i].msg] \notin {"acked", "termed"}
                        /\ \A j \in DOMAIN batch' : batch'[i].msg = batch'[j].msg => i = j
      BY DEF CopiesAreCurrent
    <2>1. i + 1 \in DOMAIN batch /\ i + 1 # 1 /\ batch'[i] = batch[i + 1]
      BY <1>1
    <2>2. batch'[i].delivered = num[batch'[i].msg]
      BY <2>1 DEF CopiesAreCurrent
    <2>3. entry'[batch'[i].msg] \notin {"acked", "termed"}
      BY <2>1, <1>3 DEF CopiesAreCurrent
    <2>4. ASSUME NEW j \in DOMAIN batch', batch'[i].msg = batch'[j].msg PROVE i = j
      <3>1. i + 1 = j + 1
        BY <2>1, <2>4, <1>1 DEF CopiesAreCurrent
      <3> QED
        BY <3>1, <2>4, <1>1
    <2> QED
      BY <2>2, <2>3, <2>4
  <1>5. NoCopyAfterDeadLetter'
    <2> SUFFICES ASSUME NEW e \in dlq', e[1] \notin Poison, NEW i \in DOMAIN batch'
                 PROVE  batch'[i].msg # e[1]
      BY DEF NoCopyAfterDeadLetter
    <2>1. CASE e \in dlq
      BY <2>1, <1>1 DEF NoCopyAfterDeadLetter
    <2>2. CASE e[1] = Current.msg
      BY <2>2, <1>3
    <2> QED
      BY <2>1, <2>2
  <1>6. BatchShape' /\ AttemptInHand'
    BY <1>1 DEF BatchShape, AttemptInHand, Busy
  <1> QED
    BY <1>1, <1>4, <1>5, <1>6, NoResultIsResult

(* What an answer does to the broker's record: at most the message in hand
   changes, to what its verdict says. *)
LEMMA SettleEffect ==
    ASSUME IInv, NEW d \in BOOLEAN, Settle(d)
    PROVE  /\ batch # <<>>
           /\ UNCHANGED <<num, dlq, clean, last>>
           /\ faults' \in 0..MaxFaults
           /\ \/ entry' = entry
              \/ /\ entry' = [entry EXCEPT ![Current.msg] = entry'[Current.msg]]
                 /\ \/ entry'[Current.msg] = "acked" /\ Verdict = "ack"
                    \/ entry'[Current.msg] = "termed" /\ Verdict = "term"
                    \/ entry'[Current.msg] = "ready" /\ Verdict = "nak"
                 /\ num[Current.msg] > 0
           /\ \/ /\ Verdict = "term" /\ pc' = "emit"
                 /\ UNCHANGED <<batch, outcome>>
              \/ Verdict # "term" /\ Advance
           /\ Verdict = "ack" => Current.msg \in clean
           /\ Verdict = "term" => \/ Current.msg \in Poison
                                  \/ /\ outcome = last[Current.msg] /\ outcome \in Outcomes
                                     /\ ~Succeeded(outcome)
                                     /\ num[Current.msg] = MaxDeliver
  <1>1. Answering /\ batch # <<>>
    BY DEF Settle, Answering, IInv, BatchShape, Busy
  <1>2. UNCHANGED <<num, dlq, clean, last>>
    BY DEF Settle, history
  <1>3. faults' \in 0..MaxFaults
    BY ConstantsAssumption DEF Settle, Fault, NoFault, IInv, TypeOK
  <1>4. /\ Current.msg \in Msgs /\ Current.delivered \in 1..MaxDeliver
        /\ Current.delivered = num[Current.msg]
    BY <1>1, CurrentIsFirst DEF IInv, CopiesAreCurrent
  <1>5. \/ entry' = entry
        \/ /\ entry' = [entry EXCEPT ![Current.msg] = entry'[Current.msg]]
           /\ \/ entry'[Current.msg] = "acked" /\ Verdict = "ack"
              \/ entry'[Current.msg] = "termed" /\ Verdict = "term"
              \/ entry'[Current.msg] = "ready" /\ Verdict = "nak"
           /\ num[Current.msg] > 0
    <2>1. CASE ~d
      BY <2>1 DEF Settle
    <2>2. CASE d /\ ~Tracked(Current.msg)
      <3>1. entry' = [entry EXCEPT ![Current.msg] = entry[Current.msg]]
        BY <2>2 DEF Settle, Answer
      <3> QED
        BY <3>1 DEF IInv, TypeOK
    <2>3. CASE d /\ Tracked(Current.msg)
      <3>1. num[Current.msg] > 0
        BY <2>3, <1>4 DEF Tracked, IInv, BrokerRecord
      <3>2. Verdict \in {"ack", "term", "nak"}
        BY DEF Verdict
      <3>3. entry' = [entry EXCEPT ![Current.msg] = Answer(Current.msg, Verdict)]
        BY <2>3 DEF Settle
      <3>4. entry'[Current.msg] = Answer(Current.msg, Verdict)
        BY <3>3, <1>4 DEF IInv, TypeOK
      <3>5. /\ Verdict = "ack" => Answer(Current.msg, Verdict) = "acked"
            /\ Verdict = "term" => Answer(Current.msg, Verdict) = "termed"
            /\ Verdict = "nak" => Answer(Current.msg, Verdict) = "ready"
        BY <2>3 DEF Answer
      <3> QED
        BY <3>1, <3>2, <3>3, <3>4, <3>5
    <2> QED
      BY <2>1, <2>2, <2>3
  <1>6. \/ Verdict = "term" /\ pc' = "emit" /\ UNCHANGED <<batch, outcome>>
        \/ Verdict # "term" /\ Advance
    BY DEF Settle
  <1>7. Verdict = "ack" => Current.msg \in clean
    BY <1>1 DEF Verdict, Answering, IInv, AttemptInHand
  <1>8. Verdict = "term" => \/ Current.msg \in Poison
                           \/ /\ outcome = last[Current.msg] /\ outcome \in Outcomes
                              /\ ~Succeeded(outcome)
                              /\ num[Current.msg] = MaxDeliver
    <2> SUFFICES ASSUME Verdict = "term", Current.msg \notin Poison
                 PROVE  /\ outcome = last[Current.msg] /\ outcome \in Outcomes
                        /\ ~Succeeded(outcome)
                        /\ num[Current.msg] = MaxDeliver
      OBVIOUS
    <2>1. pc = "settle" /\ ~Succeeded(outcome) /\ LastDelivery(Current)
      BY <1>1 DEF Answering, Verdict
    <2>2. num[Current.msg] = MaxDeliver
      BY <2>1, <1>4, ConstantsAssumption DEF LastDelivery
    <2> QED
      BY <2>1, <2>2 DEF IInv, AttemptInHand
  <1> QED
    BY <1>1, <1>2, <1>3, <1>5, <1>6, <1>7, <1>8

LEMMA SettlePreservesIInv ==
    ASSUME IInv, NEW d \in BOOLEAN, Settle(d)
    PROVE  IInv'
  <1>1. batch # <<>> /\ UNCHANGED <<num, dlq, clean, last>> /\ faults' \in 0..MaxFaults
    BY SettleEffect
  <1>2. /\ 1 \in DOMAIN batch /\ Current = batch[1] /\ Current.msg \in Msgs
        /\ entry \in [Msgs -> Entry] /\ TypeOK
    BY <1>1, CurrentIsFirst DEF IInv, TypeOK
  <1>3. \A m \in Msgs :
          \/ entry'[m] = entry[m]
          \/ /\ m = Current.msg /\ num[m] > 0
             /\ \/ entry'[m] = "acked" /\ Verdict = "ack"
                \/ entry'[m] = "termed" /\ Verdict = "term"
                \/ entry'[m] = "ready" /\ Verdict = "nak"
    BY SettleEffect, <1>2
  <1>4. entry' \in [Msgs -> Entry]
    BY SettleEffect, <1>2 DEF Entry, Final
  <1>5. /\ batch' \in Seq(Copy)
        /\ pc' \in {"fetch", "handle", "emit"}
        /\ outcome' \in Result
        /\ CopiesAreCurrent' /\ BatchShape' /\ AttemptInHand' /\ NoCopyAfterDeadLetter'
    <2>1. CASE Verdict # "term" /\ Advance
      <3>1. \A m \in Msgs : entry'[m] \in {"acked", "termed"} =>
                 entry[m] \in {"acked", "termed"} \/ m \in {Current.msg}
        BY <1>3
      <3>2. {Current.msg} \in SUBSET Msgs
        BY <1>2
      <3> QED
        BY <2>1, <3>1, <3>2, <1>1, AdvancePreserves
    <2>2. CASE /\ Verdict = "term" /\ pc' = "emit"
               /\ UNCHANGED <<batch, outcome>>
      <3>1. Current' = Current
        BY <2>2 DEF Current
      <3>2. CopiesAreCurrent'
        <4> SUFFICES ASSUME NEW i \in DOMAIN batch,
                            entry'[batch[i].msg] \in {"acked", "termed"}
                     PROVE  i = 1
          BY <1>1, <2>2 DEF IInv, CopiesAreCurrent
        <4>1. batch[i].msg \in Msgs
          BY <1>2, BatchOfMsgs
        <4>2. CASE entry'[batch[i].msg] = entry[batch[i].msg]
          BY <4>2 DEF IInv, CopiesAreCurrent
        <4>3. CASE batch[i].msg = Current.msg
          BY <4>3, <1>2 DEF IInv, CopiesAreCurrent
        <4> QED
          BY <1>3, <4>1, <4>2, <4>3
      <3>3. BatchShape' /\ NoCopyAfterDeadLetter'
        BY <1>1, <2>2 DEF IInv, BatchShape, NoCopyAfterDeadLetter, Busy
      <3>4. AttemptInHand'
        BY <1>1, <2>2, <3>1, SettleEffect DEF AttemptInHand
      <3> QED
        BY <1>2, <2>2, <3>2, <3>3, <3>4 DEF TypeOK
    <2> QED
      BY <2>1, <2>2, SettleEffect
  <1>6. TypeOK'
    BY <1>1, <1>2, <1>4, <1>5 DEF TypeOK
  <1>7. AckedOnlyWhenClean'
    BY <1>1, <1>3, SettleEffect DEF IInv, AckedOnlyWhenClean
  <1>8. DeadLettersAreTrue'
    BY <1>1, <1>3, SettleEffect DEF IInv, DeadLettersAreTrue
  <1>9. BrokerRecord'
    BY <1>1, <1>3 DEF IInv, BrokerRecord
  <1> QED
    BY <1>5, <1>6, <1>7, <1>8, <1>9 DEF IInv

(* The dead letters written are those of the attempt that failed last. *)
LEMMA EmitPreservesIInv ==
    ASSUME IInv, Emit
    PROVE  IInv'
  <1>1. /\ UNCHANGED <<entry, num, clean, last>>
        /\ pc = "emit" /\ batch # <<>> /\ Advance
    BY DEF Emit, broker, history, IInv, BatchShape, Busy
  <1>2. faults' \in 0..MaxFaults
    BY ConstantsAssumption DEF Emit, Fault, NoFault, IInv, TypeOK
  <1>3. Current.msg \in Msgs /\ TypeOK
    BY <1>1, CurrentIsFirst DEF IInv
  <1>4. \A e \in dlq' : e \in dlq \/ e \in DeadLetters(Current.msg, outcome)
    BY DEF Emit
  <1>5. \A e \in DeadLetters(Current.msg, outcome) :
          /\ e \in Event /\ e[1] = Current.msg
          /\ IF e[2] = PoisonNote THEN e[1] \in Poison
             ELSE /\ num[e[1]] = MaxDeliver
                  /\ IF e[2] = Commitwide THEN last[e[1]].raised
                     ELSE e[2] \in last[e[1]].failed
    <2>1. CASE Current.msg \in Poison
      BY <2>1, <1>3 DEF DeadLetters, Event
    <2>2. CASE Current.msg \notin Poison
      <3>1. /\ outcome = last[Current.msg] /\ outcome \in Outcomes
            /\ ~Succeeded(outcome) /\ num[Current.msg] = MaxDeliver
        BY <1>1, <2>2 DEF IInv, AttemptInHand
      <3>2. CASE outcome.failed = {}
        BY <3>1, <3>2, <2>2, <1>3 DEF DeadLetters, Event, Succeeded, Commitwide, PoisonNote
      <3>3. CASE outcome.failed # {}
        <4>1. last[Current.msg].failed \subseteq Files
          BY <3>1 DEF Outcomes, Result
        <4> QED
          BY <3>1, <3>3, <4>1, <2>2, <1>3, ConstantsAssumption DEF DeadLetters, Event
      <3> QED
        BY <3>2, <3>3
    <2> QED
      BY <2>1, <2>2
  <1>6. /\ batch' \in Seq(Copy) /\ pc' \in {"fetch", "handle"} /\ outcome' \in Result
        /\ CopiesAreCurrent' /\ BatchShape' /\ AttemptInHand' /\ NoCopyAfterDeadLetter'
    <2>1. \A e \in dlq' : e \in dlq \/ e[1] \in Poison \/ e[1] = Current.msg
      BY <1>4, <1>5
    <2>2. {} \in SUBSET Msgs /\ {} \subseteq {Current.msg}
      OBVIOUS
    <2> QED
      BY <1>1, <2>1, <2>2, AdvancePreserves
  <1>7. TypeOK'
    <2>1. dlq' \subseteq Event
      BY <1>3, <1>4, <1>5 DEF TypeOK
    <2> QED
      BY <1>1, <1>2, <1>3, <1>6, <2>1 DEF TypeOK
  <1>8. AckedOnlyWhenClean' /\ BrokerRecord'
    BY <1>1 DEF IInv, AckedOnlyWhenClean, BrokerRecord
  <1>9. DeadLettersAreTrue'
    BY <1>1, <1>4, <1>5 DEF IInv, DeadLettersAreTrue
  <1> QED
    BY <1>6, <1>7, <1>8, <1>9 DEF IInv

-----------------------------------------------------------------------------
(* The theorems *)

LEMMA StepPreservesIInv == IInv /\ [Next]_vars => IInv'
  <1> SUFFICES ASSUME IInv, [Next]_vars PROVE IInv'
    OBVIOUS
  <1>1. CASE Fetch
    BY <1>1, FetchPreservesIInv
  <1>2. CASE StartWork
    BY <1>2, StartWorkPreservesIInv
  <1>3. ASSUME NEW o \in Outcomes, FinishWork(o) PROVE IInv'
    BY <1>3, FinishWorkPreservesIInv
  <1>4. ASSUME NEW d \in BOOLEAN, Settle(d) PROVE IInv'
    BY <1>4, SettlePreservesIInv
  <1>5. CASE Emit
    BY <1>5, EmitPreservesIInv
  <1>6. CASE SettleRaises \/ Crash \/ Restart
    BY <1>6, AbandonPreservesIInv
  <1>7. ASSUME NEW m \in Msgs, Publish(m) \/ Broker(m) PROVE IInv'
    BY <1>7, BrokerPreservesIInv DEF Broker
  <1>8. ASSUME NEW m \in Msgs, DeliveryLost(m) PROVE IInv'
    BY <1>8, DeliveryLostPreservesIInv
  <1>9. CASE UNCHANGED vars
    BY <1>9 DEF vars, IInv, TypeOK, AckedOnlyWhenClean, CopiesAreCurrent, DeadLettersAreTrue,
       BatchShape, AttemptInHand, BrokerRecord, NoCopyAfterDeadLetter, Current, Succeeded
  <1> QED
    BY <1>1, <1>2, <1>3, <1>4, <1>5, <1>6, <1>7, <1>8, <1>9 DEF Next, Processor

(* The inductive invariant holds of every behaviour of the trigger path. *)
THEOREM Invariance == Spec => []IInv
  BY InitEstablishesIInv, StepPreservesIInv, PTL DEF Spec

(* The state of the trigger path is well formed: in particular the broker
   never counts more than max_deliver deliveries of a message. *)
THEOREM TypeCorrectness == Spec => []TypeOK
  BY Invariance, PTL DEF IInv

(* processor.py acks a message only after an attempt that left no failed
   file, whatever crashes, broker errors and redeliveries happen. *)
THEOREM AckSafety == Spec => []AckedOnlyWhenClean
  BY Invariance, PTL DEF IInv

(* The delivery count _handle compares with max_deliver is the broker's own,
   and no settled message is worked on again. *)
THEOREM CopySafety == Spec => []CopiesAreCurrent
  BY Invariance, PTL DEF IInv

(* _handle gives up on a commit only at its last delivery, and the events it
   writes name files that failed in that delivery. *)
THEOREM DeadLetterSafety == Spec => []DeadLettersAreTrue
  BY Invariance, PTL DEF IInv

-----------------------------------------------------------------------------
(* Refinement *)

(* The phase function an abstract step expects. *)
LEMMA PhaseUpdate ==
    ASSUME NEW m \in Msgs, NEW e,
           entry \in [Msgs -> Entry], entry' = [entry EXCEPT ![m] = e]
    PROVE  [k \in Msgs |-> PhaseOf(k)'] = [[k \in Msgs |-> PhaseOf(k)] EXCEPT ![m] = PhaseOf(m)']
  <1>1. \A k \in Msgs : k # m => entry'[k] = entry[k]
    OBVIOUS
  <1>2. \A k \in Msgs : k # m => PhaseOf(k)' = PhaseOf(k)
    BY <1>1 DEF PhaseOf
  <1> QED
    BY <1>2

(* Each step of the trigger path is a step of the lifecycle or stutters it. *)
LEMMA StepRefinesLifecycle ==
    ASSUME IInv, [Next]_vars
    PROVE  [Lifecycle!LifecycleNext]_(Lifecycle!lifecycle)
  <1> USE DEF Lifecycle!LifecycleNext, Lifecycle!lifecycle
  <1>0. /\ entry \in [Msgs -> Entry] /\ num \in [Msgs -> 0..MaxDeliver]
        /\ MaxDeliver \in Nat \ {0}
    BY ConstantsAssumption DEF IInv, TypeOK
  <1>1. ASSUME UNCHANGED <<entry, num, clean>>
        PROVE  UNCHANGED Lifecycle!lifecycle
    BY <1>1 DEF PhaseOf
  <1>2. CASE Fetch
    <2>1. PICK s \in Pulls :
            /\ entry' = [m \in Msgs |->
                  IF m \in {s[i] : i \in DOMAIN s} THEN "pending" ELSE entry[m]]
            /\ num' = [m \in Msgs |->
                  IF m \in {s[i] : i \in DOMAIN s} THEN num[m] + 1 ELSE num[m]]
            /\ clean' = clean
      BY <1>2 DEF Fetch, history
    <2> DEFINE S == {s[i] : i \in DOMAIN s}
    <2>2. \A m \in S : m \in Msgs /\ entry[m] = "ready" /\ num[m] < MaxDeliver
      BY DEF Pulls, Deliverable
    <2>3. \A m \in Msgs : PhaseOf(m)' = PhaseOf(m)
      BY <2>1, <2>2 DEF PhaseOf
    <2>4. \A m \in S : PhaseOf(m) = "open"
      BY <2>2 DEF PhaseOf
    <2>5. S \in SUBSET Msgs
      BY <2>2
    <2>6. Lifecycle!Try(S)
      BY <2>1, <2>2, <2>3, <2>4 DEF Lifecycle!Try
    <2> QED
      BY <2>5, <2>6
  <1>3. ASSUME NEW o \in Outcomes, FinishWork(o)
        PROVE  [Lifecycle!LifecycleNext]_(Lifecycle!lifecycle)
    <2>1. /\ UNCHANGED <<entry, num>>
          /\ pc = "working"
          /\ clean' = clean \/ clean' = clean \cup {Current.msg}
      BY <1>3 DEF FinishWork, broker
    <2>2. \A m \in Msgs : PhaseOf(m)' = PhaseOf(m)
      BY <2>1 DEF PhaseOf
    <2>3. batch # <<>> /\ Current.msg \notin Poison
      BY <2>1 DEF IInv, BatchShape, Busy
    <2>4. Current.msg \in Msgs /\ num[Current.msg] > 0
      BY <2>3, <1>0, CurrentIsFirst DEF IInv, CopiesAreCurrent
    <2>5. CASE clean' = clean
      BY <2>1, <2>5, <1>1
    <2>6. CASE clean' = clean \cup {Current.msg}
      <3>1. Lifecycle!Finish(Current.msg)
        BY <2>1, <2>2, <2>3, <2>4, <2>6 DEF Lifecycle!Finish
      <3> QED
        BY <3>1, <2>4
    <2> QED
      BY <2>1, <2>5, <2>6
  <1>4. ASSUME NEW d \in BOOLEAN, Settle(d)
        PROVE  [Lifecycle!LifecycleNext]_(Lifecycle!lifecycle)
    <2>1. UNCHANGED <<num, clean>> /\ batch # <<>>
      BY <1>4, SettleEffect
    <2>2. Current.msg \in Msgs
      BY <2>1, CurrentIsFirst DEF IInv
    <2>3. CASE entry' = entry
      BY <2>1, <2>3, <1>1
    <2>4. CASE entry' # entry
      <3>0. PICK m \in Msgs : m = Current.msg
        BY <2>2
      <3>1. /\ entry' = [entry EXCEPT ![m] = entry'[m]]
            /\ \/ entry'[m] = "acked" /\ m \in clean
               \/ /\ entry'[m] = "termed"
                  /\ m \in Poison \/ num[m] = MaxDeliver
               \/ entry'[m] = "ready"
            /\ num[m] > 0
        BY <1>4, <2>4, <3>0, SettleEffect
      <3>2. entry[m] \in {"pending", "ready"}
        BY <1>4, <2>4, <3>0, <1>0 DEF Settle, Answer, Tracked
      <3>3. PhaseOf(m) = "open"
        BY <3>2 DEF PhaseOf
      <3>4. [k \in Msgs |-> PhaseOf(k)'] = [[k \in Msgs |-> PhaseOf(k)] EXCEPT ![m] = PhaseOf(m)']
        BY <1>0, <3>1, PhaseUpdate
      <3>5. CASE entry'[m] = "acked"
        <4>1. PhaseOf(m)' = "closed"
          BY <3>5 DEF PhaseOf
        <4>2. Lifecycle!Close(m)
          BY <2>1, <3>1, <3>3, <3>4, <3>5, <4>1 DEF Lifecycle!Close
        <4> QED
          BY <4>2
      <3>6. CASE entry'[m] = "termed"
        <4>1. PhaseOf(m)' = "buried"
          BY <3>6 DEF PhaseOf
        <4>2. Lifecycle!Bury(m)
          BY <2>1, <3>1, <3>3, <3>4, <3>6, <4>1 DEF Lifecycle!Bury
        <4> QED
          BY <4>2
      <3>7. CASE entry'[m] = "ready"
        <4>1. PhaseOf(m)' = "open"
          BY <3>7 DEF PhaseOf
        <4> QED
          BY <2>1, <3>3, <3>4, <4>1
      <3> QED
        BY <3>1, <3>5, <3>6, <3>7
    <2> QED
      BY <2>3, <2>4
  <1>5. ASSUME NEW m \in Msgs, Publish(m)
        PROVE  [Lifecycle!LifecycleNext]_(Lifecycle!lifecycle)
    <2>1. /\ UNCHANGED <<num, clean>>
          /\ entry[m] = "absent" /\ entry' = [entry EXCEPT ![m] = "ready"]
          /\ entry'[m] = "ready"
      BY <1>0, <1>5 DEF Publish, history
    <2>2. PhaseOf(m) = "unsent" /\ PhaseOf(m)' = "open"
      BY <2>1 DEF PhaseOf
    <2>3. Lifecycle!Send(m)
      BY <1>0, <2>1, <2>2, PhaseUpdate DEF Lifecycle!Send
    <2> QED
      BY <2>3
  <1>6. ASSUME NEW m \in Msgs, AckWaitExpires(m)
        PROVE  [Lifecycle!LifecycleNext]_(Lifecycle!lifecycle)
    <2>1. /\ UNCHANGED <<num, clean>>
          /\ entry[m] = "pending" /\ entry' = [entry EXCEPT ![m] = "ready"]
          /\ entry'[m] = "ready"
      BY <1>0, <1>6 DEF AckWaitExpires, history
    <2>2. PhaseOf(m) = "open" /\ PhaseOf(m)' = "open"
      BY <2>1 DEF PhaseOf
    <2> QED
      BY <1>0, <2>1, <2>2, PhaseUpdate
  <1>7. ASSUME NEW m \in Msgs, Exhaust(m)
        PROVE  [Lifecycle!LifecycleNext]_(Lifecycle!lifecycle)
    <2>1. /\ UNCHANGED <<num, clean>> /\ num[m] = MaxDeliver
          /\ entry[m] = "ready" /\ entry' = [entry EXCEPT ![m] = "exhausted"]
          /\ entry'[m] = "exhausted"
      BY <1>0, <1>7 DEF Exhaust, history
    <2>2. PhaseOf(m) = "open" /\ PhaseOf(m)' = "dropped"
      BY <2>1 DEF PhaseOf
    <2>3. Lifecycle!Drop(m)
      BY <1>0, <2>1, <2>2, PhaseUpdate DEF Lifecycle!Drop
    <2> QED
      BY <2>3
  <1>8. ASSUME NEW m \in Msgs, DeliveryLost(m)
        PROVE  [Lifecycle!LifecycleNext]_(Lifecycle!lifecycle)
    <2>1. /\ clean' = clean /\ entry[m] = "ready" /\ num[m] < MaxDeliver
          /\ entry' = [entry EXCEPT ![m] = "pending"]
          /\ num' = [num EXCEPT ![m] = @ + 1]
          /\ entry'[m] = "pending"
      BY <1>0, <1>8 DEF DeliveryLost, Deliverable, history
    <2>2. PhaseOf(m) = "open" /\ PhaseOf(m)' = "open"
      BY <2>1 DEF PhaseOf
    <2>3. Lifecycle!Try({m})
      BY <1>0, <2>1, <2>2, PhaseUpdate DEF Lifecycle!Try
    <2> QED
      BY <2>3
  <1>9. CASE StartWork \/ Emit \/ SettleRaises \/ Crash \/ Restart \/ UNCHANGED vars
    <2>1. UNCHANGED <<entry, num, clean>>
      BY <1>9 DEF StartWork, Emit, SettleRaises, Crash, Restart, vars, broker, history
    <2> QED
      BY <2>1, <1>1
  <1> QED
    BY <1>2, <1>3, <1>4, <1>5, <1>6, <1>7, <1>8, <1>9 DEF Next, Processor, Broker

LEMMA InitRefinesLifecycle == Init => Lifecycle!LifecycleInit
  BY DEF Init, Lifecycle!LifecycleInit, PhaseOf

(* The whole trigger path - batches, acknowledgements, lost answers, crashes
   and restarts - implements the lifecycle of a trigger. *)
THEOREM Refinement == Spec => ImplementsLifecycle
  BY InitRefinesLifecycle, StepRefinesLifecycle, Invariance, PTL
     DEF Spec, ImplementsLifecycle, Lifecycle!LifecycleSpec

-----------------------------------------------------------------------------
(* When giving up is never silent *)

(* Nothing has failed so far, or nothing can fail but an answer on its way to
   the broker. *)
OnlyAnswersLost == faults = 0 \/ Faults \subseteq {"answer"}

(* A message that was delivered as often as it can be and is no longer in hand
   was ingested or has its event. *)
UsedUpOnlyWithDeadLetter ==
    \A m \in Msgs :
        num[m] = MaxDeliver /\ (\A i \in DOMAIN batch : batch[i].msg # m)
            => m \in clean \/ HasDeadLetter(m)

NotSilent == OnlyAnswersLost => UsedUpOnlyWithDeadLetter

(* The hypothesis cannot become true again once it was false. *)
LEMMA OnlyAnswersLostBefore ==
    ASSUME IInv, [Next]_vars, OnlyAnswersLost'
    PROVE  OnlyAnswersLost
  <1>1. faults \in Nat /\ (faults' = faults \/ faults' = faults + 1)
    <2>1. faults \in Nat
      BY ConstantsAssumption DEF IInv, TypeOK
    <2> QED
      BY <2>1 DEF Next, Processor, Broker, vars, Fetch, StartWork, FinishWork, Settle, Emit,
         Restart, Publish, AckWaitExpires, Exhaust, DeliveryLost, SettleRaises, Crash, Fault,
         NoFault
  <1> QED
    BY <1>1 DEF OnlyAnswersLost

(* A fault that is not a lost answer ends the hypothesis. *)
LEMMA OtherFaultEndsIt ==
    ASSUME IInv, NEW kind, kind # "answer", Fault(kind)
    PROVE  ~OnlyAnswersLost'
  <1>1. faults \in Nat /\ faults' = faults + 1 /\ kind \in Faults
    BY ConstantsAssumption DEF IInv, TypeOK, Fault
  <1> QED
    BY <1>1 DEF OnlyAnswersLost

(* Dropping the copy in hand is harmless when its message is accounted for. *)
LEMMA AdvanceNotSilent ==
    ASSUME IInv, UsedUpOnlyWithDeadLetter, batch # <<>>, Advance,
           UNCHANGED <<num, clean>>, dlq \subseteq dlq',
           num[Current.msg] = MaxDeliver
               => Current.msg \in clean \/ \E e \in dlq' : e[1] = Current.msg
    PROVE  UsedUpOnlyWithDeadLetter'
  <1> SUFFICES ASSUME NEW m \in Msgs, num'[m] = MaxDeliver,
                      \A i \in DOMAIN batch' : batch'[i].msg # m
               PROVE  m \in clean' \/ HasDeadLetter(m)'
    BY DEF UsedUpOnlyWithDeadLetter
  <1>1. /\ batch' = Tail(batch) /\ batch \in Seq(Copy) /\ Len(batch) \in Nat \ {0}
        /\ Current = batch[1]
    BY CurrentIsFirst DEF Advance, IInv, TypeOK
  <1>2. CASE m = Current.msg
    BY <1>2 DEF HasDeadLetter
  <1>3. CASE m # Current.msg
    <2>1. ASSUME NEW i \in DOMAIN batch PROVE batch[i].msg # m
      <3>1. CASE i = 1
        BY <3>1, <1>1, <1>3
      <3>2. CASE i # 1
        <4>1. i - 1 \in DOMAIN Tail(batch) /\ Tail(batch)[i - 1] = batch[i]
          BY <3>2, <1>1
        <4> QED
          BY <4>1, <1>1
      <3> QED
        BY <3>1, <3>2
    <2> QED
      BY <2>1 DEF UsedUpOnlyWithDeadLetter, HasDeadLetter
  <1> QED
    BY <1>2, <1>3

LEMMA FetchNotSilent ==
    ASSUME IInv, UsedUpOnlyWithDeadLetter, Fetch
    PROVE  UsedUpOnlyWithDeadLetter'
  <1>1. PICK s \in Pulls :
          /\ num' = [m \in Msgs |->
                IF m \in {s[i] : i \in DOMAIN s} THEN num[m] + 1 ELSE num[m]]
          /\ batch' = [i \in DOMAIN s |->
                          [msg |-> s[i], delivered |-> Delivered(s[i])]]
    BY DEF Fetch
  <1>2. UNCHANGED <<dlq, clean>> /\ DOMAIN batch = {}
    BY DEF Fetch, ReadyToFetch, history
  <1> SUFFICES ASSUME NEW m \in Msgs, num'[m] = MaxDeliver,
                      \A i \in DOMAIN batch' : batch'[i].msg # m
               PROVE  m \in clean \/ HasDeadLetter(m)
    BY <1>2 DEF UsedUpOnlyWithDeadLetter, HasDeadLetter
  <1>3. m \notin {s[i] : i \in DOMAIN s}
    BY <1>1
  <1> QED
    BY <1>1, <1>2, <1>3 DEF UsedUpOnlyWithDeadLetter

LEMMA SettleNotSilent ==
    ASSUME IInv, UsedUpOnlyWithDeadLetter, NEW d \in BOOLEAN, Settle(d)
    PROVE  UsedUpOnlyWithDeadLetter'
  <1>1. /\ batch # <<>> /\ UNCHANGED <<num, dlq, clean>>
        /\ \/ UNCHANGED batch
           \/ Verdict # "term" /\ Advance
    BY SettleEffect
  <1>2. CASE UNCHANGED batch
    BY <1>1, <1>2 DEF UsedUpOnlyWithDeadLetter, HasDeadLetter
  <1>3. CASE Verdict # "term" /\ Advance
    <2>1. /\ Current.delivered = num[Current.msg] /\ num[Current.msg] \in 1..MaxDeliver
      BY <1>1, CurrentIsFirst DEF IInv, CopiesAreCurrent
    <2>2. num[Current.msg] = MaxDeliver => Verdict = "ack"
      BY <1>3, <2>1, ConstantsAssumption DEF Verdict, LastDelivery
    <2>3. num[Current.msg] = MaxDeliver => Current.msg \in clean
      BY <2>2, SettleEffect
    <2> QED
      BY <1>1, <1>3, <2>3, AdvanceNotSilent
  <1> QED
    BY <1>1, <1>2, <1>3

(* When the event sink takes every event, a terminated commit has one. *)
LEMMA EmitNotSilent ==
    ASSUME IInv, UsedUpOnlyWithDeadLetter, Emit, OnlyAnswersLost'
    PROVE  UsedUpOnlyWithDeadLetter'
  <1>1. PICK lost \in SUBSET DeadLetters(Current.msg, outcome) :
          /\ dlq' = dlq \cup (DeadLetters(Current.msg, outcome) \ lost)
          /\ IF lost = {} THEN NoFault ELSE Fault("event")
    BY DEF Emit
  <1>2. lost = {}
    BY <1>1, OtherFaultEndsIt
  <1>3. dlq' = dlq \cup DeadLetters(Current.msg, outcome)
    BY <1>1, <1>2
  <1>4. PICK e \in DeadLetters(Current.msg, outcome) : e[1] = Current.msg
    <2>1. CASE Current.msg \in Poison
      BY <2>1 DEF DeadLetters
    <2>2. CASE Current.msg \notin Poison /\ outcome.failed = {}
      BY <2>2 DEF DeadLetters
    <2>3. CASE Current.msg \notin Poison /\ outcome.failed # {}
      <3>1. PICK f \in outcome.failed : TRUE
        BY <2>3
      <3>2. <<Current.msg, f>> \in DeadLetters(Current.msg, outcome)
        BY <2>3, <3>1 DEF DeadLetters
      <3> QED
        BY <3>2
    <2> QED
      BY <2>1, <2>2, <2>3
  <1>5. batch # <<>> /\ Advance /\ UNCHANGED <<num, clean>>
    BY DEF Emit, broker, history, IInv, BatchShape, Busy
  <1>6. \E f \in dlq' : f[1] = Current.msg
    BY <1>3, <1>4
  <1>7. dlq \subseteq dlq'
    BY <1>3
  <1> QED
    BY <1>5, <1>6, <1>7, AdvanceNotSilent

LEMMA StepNotSilent == IInv /\ NotSilent /\ [Next]_vars => NotSilent'
  <1> SUFFICES ASSUME IInv, NotSilent, [Next]_vars, OnlyAnswersLost'
               PROVE  UsedUpOnlyWithDeadLetter'
    BY DEF NotSilent
  <1>0. UsedUpOnlyWithDeadLetter
    BY OnlyAnswersLostBefore DEF NotSilent
  <1>1. CASE Fetch
    BY <1>0, <1>1, FetchNotSilent
  <1>2. ASSUME NEW d \in BOOLEAN, Settle(d) PROVE UsedUpOnlyWithDeadLetter'
    BY <1>0, <1>2, SettleNotSilent
  <1>3. CASE Emit
    BY <1>0, <1>3, EmitNotSilent
  <1>4. CASE SettleRaises \/ Crash
    BY <1>4, OtherFaultEndsIt DEF SettleRaises, Crash
  <1>5. ASSUME NEW m \in Msgs, DeliveryLost(m) PROVE FALSE
    BY <1>5, OtherFaultEndsIt DEF DeliveryLost
  <1>6. ASSUME NEW o \in Outcomes, FinishWork(o) PROVE UsedUpOnlyWithDeadLetter'
    <2>1. UNCHANGED <<num, batch, dlq>> /\ clean \subseteq clean'
      BY <1>6 DEF FinishWork, broker
    <2> QED
      BY <1>0, <2>1 DEF UsedUpOnlyWithDeadLetter, HasDeadLetter
  <1>7. ASSUME UNCHANGED <<num, batch, dlq, clean>> PROVE UsedUpOnlyWithDeadLetter'
    BY <1>0, <1>7 DEF UsedUpOnlyWithDeadLetter, HasDeadLetter
  <1>8. CASE StartWork \/ Restart \/ UNCHANGED vars
    BY <1>7, <1>8 DEF StartWork, Restart, vars, broker, history
  <1>9. ASSUME NEW m \in Msgs, Publish(m) \/ Broker(m) PROVE UsedUpOnlyWithDeadLetter'
    BY <1>7, <1>9 DEF Publish, Broker, AckWaitExpires, Exhaust, local, history
  <1> QED
    BY <1>1, <1>2, <1>3, <1>4, <1>5, <1>6, <1>8, <1>9 DEF Next, Processor

LEMMA InitNotSilent == Init => NotSilent
  BY ConstantsAssumption DEF Init, NotSilent, UsedUpOnlyWithDeadLetter

(* The promise of processor.py's comment (FR-009) with the condition it needs:
   while nothing has failed, or where nothing but an answer to the broker can
   fail, the broker never gives up on a commit that was neither ingested nor
   reported.  The run commit_stream_given_up shows that a crash breaks it. *)
THEOREM GivingUpIsReported == Spec => [](OnlyAnswersLost => GivenUpOnlyWithDeadLetter)
  <1>1. IInv /\ NotSilent => (OnlyAnswersLost => GivenUpOnlyWithDeadLetter)
    BY DEF NotSilent, UsedUpOnlyWithDeadLetter, GivenUpOnlyWithDeadLetter, IInv, BrokerRecord
  <1>2. Spec => []NotSilent
    BY InitNotSilent, StepNotSilent, Invariance, PTL DEF Spec
  <1> QED
    BY <1>1, <1>2, Invariance, PTL
=============================================================================
