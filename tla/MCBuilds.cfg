SPECIFICATION Spec
CONSTANTS
    r1 = r1
    r2 = r2
    w1 = w1
    w2 = w2
    alice = alice
    bob = bob
    None = None
    Requests = {r1, r2}
    Spawners = {w1, w2}
    Environments <- MCEnvironments
INVARIANTS
    OneSubmission
    ReadyIsVetted
PROPERTIES
    ReadySurvives
    BuildDecided
CHECK_DEADLOCK FALSE
