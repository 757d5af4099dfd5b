\* One crash is enough to lose a commit at its last delivery.
CONSTANTS
    m1 = m1
    m2 = m2
    bad = bad
    f1 = f1
    Msgs <- MCMsgs
    Poison <- MCPoison
    Files <- MCFiles
    MaxDeliver = 2
    Batch = 2
    Faults = {"crash"}
    MaxFaults = 1
SPECIFICATION Spec
INVARIANT GivenUpOnlyWithDeadLetter
CHECK_DEADLOCK FALSE
