SPECIFICATION FairSpec
CONSTANTS
    BatchSize = 2
    MaxRetries = 1
    MaxDrainFaults = 1
    Publishable <- HasEnvelope
    Histories <- TheHistories
    Quals = {"q", "r"}
    Consumers = {c1, c2}
    MaxReceives = 2
    MaxFaults = 1
    MaxTries = 2
    MaxQualTries = 2
    Rejections = {w1}
    Since = {0, 4, 6}
INVARIANTS
    FieldsShowTheNewest
    QualsShowTheNewest
    DisabledOnTheGatewaysWord
PROPERTIES
    DeadTokensStayDead
    EveryEventIsHandled
CHECK_DEADLOCK FALSE
