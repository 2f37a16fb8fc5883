SPECIFICATION Spec
CONSTANTS
    Services = {s1, s2}
    Publishers = {p1}
    Ops = {o1}
    NoService = NoService
    NoPublisher = NoPublisher
    NoOp = NoOp
    Kinds = {"create", "subscribe", "unsubscribe", "stop"}
    MaxCalls = 3
    MaxRequests = 4
    PublisherCanFail = TRUE
    CanDisconnect = TRUE
INVARIANTS
    TypeOK
    OwnAnswerOnce
    OperationsCompletedOnce
    SubscriptionsTracked
    CloseUnsubscribes
    KnownServicesRun
PROPERTIES
    CreateAnswered
CHECK_DEADLOCK FALSE
