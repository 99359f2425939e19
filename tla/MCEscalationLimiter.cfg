SPECIFICATION Spec
CONSTANTS
    EscalationLimit = 2
    Window = 3
    CountCap = 4
    Horizon = 13
INVARIANTS
    TypeOK
    AtMostTwoQuotas
    QuotaIsUsed
