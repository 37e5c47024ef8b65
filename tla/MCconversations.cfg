SPECIFICATION QueuesSpec
CONSTANTS
    d1 = d1
    d2 = d2
    i1 = i1
    i2 = i2
    Channels = {"telegram", "whatsapp"}
    FaultKinds = {"repost", "queue", "ackwait", "lookup", "mark", "provider", "answer_lost", "record", "echo", "crash"}
    MaxFaults = 1
    MaxInbound = 2
    MaxCalls = 1
    HistoryLimit = 2
    MaxDeliver = 2
    Job = {d1, d2}
    Worker = {i1, i2}
    MaxIngestDeliver = 3
    MaxAttempts = 2
    IngestFaults = {"publish", "publish_answer", "statement", "answer", "slow", "crash"}
    MaxIngestFaults = 2
CHECK_DEADLOCK FALSE
INVARIANTS QueuesTypeOK AnsweredOnce AtMostOneLate LeaseHolds
PROPERTIES EscalationStands QueuesSettle
