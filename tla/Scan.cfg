SPECIFICATION Spec
CONSTANTS
    One = One
    Two = Two
    Assignments <- ScanAssignments
    MaxMinute = 1
    Failures = 1
    MinPoints = 2
    Exceeds <- MCExceeds
    Differs <- MCDiffers
    Unlikely <- MCUnlikely
    Interval <- MCInterval
    Strength <- MCStrength
    PsiTail <- MCPsiTail
    KsTail <- MCKsTail
INVARIANTS
    TypeOK
    VerdictFollows
    SealHolds
    IndexFollows
    DriftStands
CHECK_DEADLOCK FALSE
