SPECIFICATION FairSpec
CONSTANTS
    MaxOrders = 4
    MaxTime = 5
    Environments <- MCTask

    
PROPERTIES
    TimeoutsOnTime
    TaskEnds
