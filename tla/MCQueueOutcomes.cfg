CONSTANTS
    f1 = f1
    Pairs = {f1}
    NoPair = NoPair
    Nobody = Nobody
    Ghost = Ghost
    Pool = {g1}
    Home <- OneLocal
    Deletable = {f1}
    Outcomes = {"done", "skip", "removed", "requeue", "interrupt", "postpone", "error", "giveup", "no_space", "ongoing", "void", "raise"}
    MaxErrors = 1
    MaxPush = 2
    MaxToggle = 1
SPECIFICATION Spec
INVARIANTS TypeOK HandlersExclusive NoOrphanOwner ErrorTimerArmed NoLostWakeup
CHECK_DEADLOCK FALSE
