CONSTANTS
    Tool = {t1}
    Web = {u1}
    Restorer = {r1}
    t1 = t1
    u1 = u1
    r1 = r1
    Modes = {"scheduled", "catch_up"}
    Keep = 1
    DayLength = 1
    Losses = {"missing", "corrupt"}
    Endings = {TRUE}
    Unknown = 4
    Spread = 0
    MaxWrites = 1
    MaxNumber = 3
    MaxTime = 1
    MaxLosses = 1
    MaxRestores = 1
SPECIFICATION Spec
CHECK_DEADLOCK FALSE
INVARIANTS LockExcludes SessionsEnd
PROPERTIES NothingUnsaved RemovedOnlyOld OncePerDay
