SPECIFICATION Spec
CONSTANTS
    One = One
    Two = Two
    Assignments <- Stubborn
    MaxMinute = 1
    Failures = 0
    MinPoints = 2
    Exceeds <- MCExceeds
    Differs <- MCDiffers
    Unlikely <- MCUnlikely
    Interval <- MCInterval
    Strength <- MCStrength
    PsiTail <- MCPsiTail
    KsTail <- MCKsTail
INVARIANT SubstitutionCaught
CHECK_DEADLOCK FALSE
