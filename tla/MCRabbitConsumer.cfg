CONSTANTS
    Users = {c1, c2, c3}
    Consumers = {c1, c2, c3}
    AutoAckers = {c3}
    Messages = {m1}
    NoMessage = NoMessage
    Channels = {h1, h2}
    MaxSize = 1
    NoChannel = NoChannel
SPECIFICATION FairSpec
INVARIANTS
    NothingLost
    HandledOnce
PROPERTIES
    AllConsumed
