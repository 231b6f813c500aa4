CONSTANTS
    Kinds = {"rabbitmq", "kafka"}
    Publishers = {p1}
    Producers = {q1}
    Resender = resender
    Monitor = monitor
    Starter = starter
    Closers = {k1}
    Reconnecters = {r1}
    NoOne = NoOne
    Users = {p1, q1, resender}
    Channels = {c1, c2, c3}
    NoChannel = NoChannel
    MaxSize = 2
    Ids = {i1, i2, i3}
    NoId = NoId
    MaxRetries = 1
    StoreMayFail = TRUE
SPECIFICATION MqFairSpec
INVARIANTS
    HoldsOnlyWhileSending
    DisconnectedMeansDown
    RoundIsStored
    Exclusive
    NoOrphan
    ReadersKeepProducer
PROPERTIES
    ImplementsOutbox
    ClosedIsFinal
    PublishReturns
    HealthyDrains
CHECK_DEADLOCK FALSE
