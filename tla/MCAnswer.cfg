\* One message through the whole of its handler.
SPECIFICATION FairSpec
CONSTANTS
    MaxLines = 2
    Messages <- MCMessages
    Configs <- MCConfigs
INVARIANTS
    TypeOK
    NoHermesLeft
    PrivilegesKept
    AnsweredOnce
    RecordedFromAnswer
PROPERTIES
    MessageSettles
    NoticesEnd
