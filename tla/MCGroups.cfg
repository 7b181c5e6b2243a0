SPECIFICATION FairSpec
CONSTANTS
    g1 = g1
    g2 = g2
    NoRun = NoRun
    Groups = {g1, g2}
    Environments <- MCGroups
INVARIANTS
    DrivenInTurn
    

    
CHECK_DEADLOCK FALSE
