CONSTANTS
    f1 = f1
    Pairs = {f1}
    NoPair = NoPair
    Nobody = Nobody
    Ghost = Ghost
    Pool = {g1}
    Home <- OneLocal
    Deletable = {}
    Outcomes = {"done", "requeue", "interrupt", "postpone"}
    MaxErrors = 1
    MaxPush = 2
    MaxToggle = 1
SPECIFICATION FairSpec
INVARIANT NoLostPair
PROPERTIES Delivered ImplementsDelivery
CHECK_DEADLOCK FALSE
