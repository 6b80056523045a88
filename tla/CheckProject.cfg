SPECIFICATION MCSpec
CONSTANTS
    BlockLimit = 5
    CopyrightLines = 1
    NameOrder <- MCNameOrder
    FilteredNamespaces <- MCFiltered
    UnknownTokens <- MCUnknown
    PathOrder <- MCPathOrder
    Projects <- MCProjects
    AllOptions <- MCOptions
    Exclusions <- MCExclusions
    TextPrefixes <- MCPrefixes
    ExitCodes = 256
INVARIANTS
    RegionsAreJudged
    CarryOverReachesOneLine
    SuggestionIsAccepted
    NamespacesAreFound
    ExitTellsTheVerdict
    IncludesHaveOneOrder
