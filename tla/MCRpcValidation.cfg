SPECIFICATION RpcSpec
CONSTANTS
    Topics <- MCTopics
    Lengths = {0, 1, 2, 3}
    Ids = {1, 2, 3}
    MinId = 2
    ByteLength = 2
    MaxSubscriptionBatchSize = 2
    MaxFetchBatchSize = 3
    MaxReceiveBatchSize = 1
INVARIANTS
    BatchAgreesWithSingles
CHECK_DEADLOCK FALSE
