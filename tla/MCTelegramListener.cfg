SPECIFICATION Spec
CONSTANTS
    Configs <- MCConfigs
    Malformed = malformed
    MaxLives = 2
    Script <- MCScript
    QueueSize = 1
    Texts <- MCTexts
CHECK_DEADLOCK FALSE
INVARIANTS
    TypeOK
    ExitReleases
    RunningIsConfigured
    ForgottenMeansQueued
    TypingEndsBeforeReply
PROPERTIES
    ImplementsMailbox
    EventuallyServed
