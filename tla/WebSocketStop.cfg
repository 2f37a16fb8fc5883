SPECIFICATION Spec
CONSTANTS
    Services = {s1}
    Publishers = {p1}
    Ops = {o1}
    NoService = NoService
    NoPublisher = NoPublisher
    NoOp = NoOp
    Kinds = {"create", "stop"}
    MaxCalls = 2
    MaxRequests = 4
    PublisherCanFail = FALSE
    CanDisconnect = FALSE
PROPERTIES
    EveryCallAnswered
CHECK_DEADLOCK FALSE
