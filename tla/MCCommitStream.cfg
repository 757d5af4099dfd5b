\* Lifecycle of three messages under two faults.
CONSTANTS
    m1 = m1
    m2 = m2
    bad = bad
    f1 = f1
    Msgs <- MCMsgs
    Poison <- MCPoison
    Files <- MCFiles
    MaxDeliver = 2
    Batch = 2
    Faults = {"crash", "delivery", "answer", "raise", "event"}
    MaxFaults = 2
SPECIFICATION Spec
INVARIANTS
    TypeOK
    AckedOnlyWhenClean
    CopiesAreCurrent
    DeadLettersAreTrue
PROPERTIES
    EveryTriggerSettles
    AnsweredUnlessFault
    ImplementsLifecycle
\* All messages settled: the service idles on an empty stream.
CHECK_DEADLOCK FALSE
