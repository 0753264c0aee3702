SPECIFICATION FairChatSpec
CONSTANTS
    MaxMessages = 2
    MaxCommands = 2
    MaxReady = 2
CHECK_DEADLOCK FALSE
INVARIANTS
    ChatInv
    FieldMatchesQuestion
    NoButtonsBeforeAnswer
PROPERTIES
    NotifiedWhileAway
    ProgressGoes
