SPECIFICATION FairSpec
CONSTANT MaxMessages = 3
INVARIANTS
    NoMessageQueued
    DeliveredInOrder
    SubscribesOnlyWhenGranted
PROPERTIES
    AnswerEndsLogin
    SentIsDelivered
    DisconnectStopsReceiver
CHECK_DEADLOCK FALSE
