SPECIFICATION Spec
CONSTANTS
    Environments <- MCEnvironments
INVARIANTS
    DrivenIsServed
PROPERTIES
    ReleasedIsGone
CHECK_DEADLOCK FALSE
