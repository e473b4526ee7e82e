SPECIFICATION Spec
CONSTANTS
    None = None
    Choices <- SomeChoices
    Varied <- AllPairs
INVARIANTS OmittedKeepsTemplate
