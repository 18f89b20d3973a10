\* A statement of the sources that the code does not keep, and TLC's counterexample.
SPECIFICATION RequestSpec
CONSTANTS
    Models <- MCModels
    Systems <- MCSystems
    Thinkings <- MCThinkings
    Efforts <- MCEfforts
    Declarations <- MCDeclarations
    UserContents <- MCUserContents
    AssistantContents <- MCAssistantContents
    Unsupported = {"tiff"}
    ShortOf <- MCShortOf
    LowerOf <- MCLowerOf
    MaxMessages = 5
CHECK_DEADLOCK FALSE
INVARIANT SchemasAccepted
\* Others that the same instance violates:
\* INVARIANT ThinkingAsked
\* INVARIANT ResultsHaveUses
\* INVARIANT AssistantContentFilled
\* INVARIANT AnsweredRightBehind
