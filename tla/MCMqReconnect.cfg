CONSTANTS
    Kinds = {"rabbitmq", "kafka"}
    Publishers = {p1}
    Producers = {}
    Resender = resender
    Monitor = monitor
    Starter = starter
    Closers = {}
    Reconnecters = {r1}
    NoOne = NoOne
    Users = {p1, resender}
    Channels = {c1, c2, c3}
    NoChannel = NoChannel
    MaxSize = 1
    Ids = {i1, i2, i3}
    NoId = NoId
    MaxRetries = 1
    StoreMayFail = FALSE
SPECIFICATION MqFairSpec
PROPERTIES
    ReconnectReturns
CHECK_DEADLOCK FALSE
