SPECIFICATION BubbleSpec
CONSTANTS
    Lines <- MCLines
    CallIds = {"a", "b"}
    ChatScripts <- MCChatScripts
    MaxStreams = 2
    BatchSize = 2
CHECK_DEADLOCK FALSE
INVARIANTS
    BubbleTypeOK
    NothingStaleInFlight
    StreamsAreReleased
    PendingCardsAreLive
PROPERTIES
    PromptReturns
