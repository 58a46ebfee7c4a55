SPECIFICATION FairSpec
CONSTANTS
    Trades = {1}
    Weeklies = {2}
    Daemons = {"daemon"}
    OneShots = {"poll"}
    MaxPresses = 2
    MaxBranches = 3
    MaxEvents = 2
INVARIANTS
    TypeOK
    AppliedOnce
    RejectedIsFinal
    OwnEditsOnly
    DroppedWasHandled
PROPERTIES
    PressHandled
