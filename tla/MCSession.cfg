\* One object per check, debug or not, with one signal at any time.
CONSTANTS
    Commands <- MCCommands
    Lines <- DebugOrNot
    Objects = {"deployment"}
    Detached = {}
CONSTRAINT SignalOrIncident
SPECIFICATION SessionSpec
INVARIANTS
    SessionTypeOK
    LeaksReachTheRoom
    ExitZeroMeansDone
    PostedInOrder
    RarelyTwice
    ExitTellsOutcome
    ExitIsTold
