SPECIFICATION FairSpec
CONSTANTS
    b = b
    wild = wild
    bu = bu
    base = base
    Words <- MCWords
    Aliases <- MCAliases
    Lines <- MCLines
    NestingLimit = 5
    Includes <- MCIncludes
    Root <- MCRoot
    Covers <- MCCovers
INVARIANTS
    Inv
    VerdictsFollowTheConfiguration
PROPERTIES
    DerivesTheClosure
    ConstructorEnds
CHECK_DEADLOCK FALSE
