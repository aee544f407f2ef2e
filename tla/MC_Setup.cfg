SPECIFICATION SetupSpec
CONSTANT Configs <- MCConfigs
INVARIANTS
    WeightsAddUp
    GroupsHoldTheirMana
    EdgesKept
    AnswerableNeighbors
PROPERTY SetupEnds
CHECK_DEADLOCK FALSE
