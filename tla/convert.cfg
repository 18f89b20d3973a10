SPECIFICATION RequestSpec
CONSTANTS
    Models <- MCModels
    Systems <- MCSystems
    Thinkings <- MCThinkings
    Efforts <- MCEfforts
    Declarations <- MCDeclarations
    UserContents <- MCUserContents
    AssistantContents <- MCAssistantContents
    Unsupported = {"tiff"}
    ShortOf <- MCShortOf
    LowerOf <- MCLowerOf
    MaxMessages = 5
CHECK_DEADLOCK FALSE
INVARIANTS
    UsesAnswered
    NamesRestored
\* Hold on this instance as well: INVARIANTS TypeOK, TurnsKept, PicturesSentOnce, HistoryToolsDeclared
