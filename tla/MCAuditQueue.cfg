CONSTANTS
    t1 = t1
    t2 = t2
    f1 = f1
    f2 = f2
    Tx = {t1, t2}
    NoTx = NoTx
    Final = {f1, f2}
    FinalOf <- Finals
    Honest = {t1}
    Slack = 2
    MaxLives = 2
SPECIFICATION Spec
INVARIANTS
    TypeOK
    AcknowledgedIsStored
    NothingElseLost
PROPERTY Audited
CHECK_DEADLOCK FALSE
