SPECIFICATION Spec
CONSTANTS
    Asha = Asha
    Root = Root
    Newcomer = Newcomer
    Desk = Desk
    Office = Office
    T1 = T1
    T2 = T2
    NoActor = NoActor
    NoAccount = NoAccount
    Actors = {Asha, Root, Newcomer}
    Browsers = {Desk, Office}
    Threads = {T1, T2}
    FirstRows <- MCRows
    SignedIn <- MCSignedIn
    MayDecide = {"analyst", "approver"}
    Workloads <- MCWorkloads
    Managed = {Asha, Newcomer}
    GivenRoles = {"viewer"}
    Forms <- MCForms
    Ends = {"timeout", "clean"}
    Threshold = 2
    BaseLock = 1
    MaxLock = 2
    Idle = 1
    Ttl = 1
    PerMinute = 2
    MaxTime = 1
    MaxSize = 2
    MaxCuts = 1
SYMMETRY Interchangeable
INVARIANTS
    TypeOK
    LiveSessionsAreCurrent
    CountedWhenAlone
    BadgeIsFresh
CHECK_DEADLOCK FALSE
