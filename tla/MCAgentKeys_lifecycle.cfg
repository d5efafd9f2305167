SPECIFICATION Spec
CONSTANTS
    MaxAgents = 7
    MaxOps = 3
    MaxFaults = 2
INVARIANT NoAgentLeftBehind
PROPERTIES OnlyHolderApplies Reconnects
