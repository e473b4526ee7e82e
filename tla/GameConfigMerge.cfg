SPECIFICATION FairSpec
CONSTANTS
    None = None
    Choices <- SomeChoices
    Varied <- AllPairs
INVARIANTS InlineWins TemplateFillsIn LimitsAreGiven
PROPERTIES MapsComeRound
