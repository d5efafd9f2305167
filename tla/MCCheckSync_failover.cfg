SPECIFICATION FairSpec
CONSTANTS
    Agents <- MCAgents
    Checks <- MCChecks
    Score <- MCScore
    Tables <- MCTables
    None = None
    MaxEdits = 1
    MaxStops = 1
    MaxLosses = 1
INVARIANTS ManualEditsReach
PROPERTIES RunAsAssigned
