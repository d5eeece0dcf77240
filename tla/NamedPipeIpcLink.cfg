\* Both ends' invariants, both directions as channels, and neither blocked by the
\* other; two client processes in turn, one process killed.
SPECIFICATION FairSpec
CONSTANTS
    Quota = 1
    MaxSend = 2
    MaxClients = 2
    MaxKills = 1
INVARIANT EndsKeepInvariants
PROPERTY DirectionsAreChannels
PROPERTY BothDirectionsFlow
CHECK_DEADLOCK FALSE
