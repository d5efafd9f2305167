SPECIFICATION FairSpec
CONSTANTS
    Agents = {1, 2}
    Modes = {"manual", "distribute"}
    Heartbeat = 1
    OfflineAfter = 1
    AgentAfter = 2
    CheckAfter = 1
    Resend = Never
    MaxResends = Never
    Recovery = TRUE
    Never = Never
    Lateness = {0, 1}
    MaxRowAge = 2
    MaxFaults = 1
INVARIANTS OnePagePerEpisode
PROPERTIES SilenceTold RecoveryTold OutageTold
