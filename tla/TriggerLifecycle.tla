-------------------------- MODULE TriggerLifecycle --------------------------
(***************************************************************************)
(* What the trigger path promises about one commit message, whatever the   *)
(* broker, the batches and the crashes do: it is tried a bounded number of *)
(* times, forgotten as done only after a try that left no failed file, and *)
(* given up only when it can never be parsed or its tries are used up.     *)
(* CommitStream implements this specification.                             *)
(***************************************************************************)
EXTENDS Naturals

CONSTANTS Msgs, Poison, MaxTries

VARIABLES phase, tries, done

lifecycle == <<phase, tries, done>>

Phase == {"unsent", "open", "closed", "buried", "dropped"}

LifecycleInit ==
    /\ phase = [m \in Msgs |-> "unsent"]
    /\ tries = [m \in Msgs |-> 0]
    /\ done = {}

Send(m) ==
    /\ phase[m] = "unsent"
    /\ phase' = [phase EXCEPT ![m] = "open"]
    /\ UNCHANGED <<tries, done>>

(* A pull hands out several messages at once. *)
Try(S) ==
    /\ \A m \in S : phase[m] = "open" /\ tries[m] < MaxTries
    /\ tries' = [m \in Msgs |-> IF m \in S THEN tries[m] + 1 ELSE tries[m]]
    /\ UNCHANGED <<phase, done>>

(* Only a message that was handed out can be done, and no poison ever is. *)
Finish(m) ==
    /\ m \notin Poison /\ tries[m] > 0
    /\ done' = done \cup {m}
    /\ UNCHANGED <<phase, tries>>

Close(m) ==
    /\ phase[m] = "open" /\ m \in done
    /\ phase' = [phase EXCEPT ![m] = "closed"]
    /\ UNCHANGED <<tries, done>>

Bury(m) ==
    /\ phase[m] = "open"
    /\ IF m \in Poison THEN tries[m] > 0 ELSE tries[m] = MaxTries
    /\ phase' = [phase EXCEPT ![m] = "buried"]
    /\ UNCHANGED <<tries, done>>

Drop(m) ==
    /\ phase[m] = "open" /\ tries[m] = MaxTries
    /\ phase' = [phase EXCEPT ![m] = "dropped"]
    /\ UNCHANGED <<tries, done>>

LifecycleNext ==
    \/ \E S \in SUBSET Msgs : Try(S)
    \/ \E m \in Msgs : Send(m) \/ Finish(m) \/ Close(m) \/ Bury(m) \/ Drop(m)

LifecycleSpec == LifecycleInit /\ [][LifecycleNext]_lifecycle
=============================================================================
