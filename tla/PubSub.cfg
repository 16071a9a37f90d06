CONSTANTS
    Ids = {i1}
    Publishers = {redis}
    Streamer = streamer
    Closer = closer
    Topics = {t1,t2}
    BlockingModes = {TRUE,FALSE}
    BlockingSubscription = FALSE
    StreamSize = 0
    ListenerSize = 0
    None = None
    MaxBatch = 1
    MaxMessages = 2
SPECIFICATION FairSpec
INVARIANTS
    SubscriptionsAgree
    PanicsOnlyAfterClose
PROPERTIES
    
    CallsReturnUnlessEntangled
CHECK_DEADLOCK FALSE
